---------------------------- MODULE Spec2Model ----------------------------
(***************************************************************************)
(* Fuzzy AHP (Buckley) session of azgard-tar/fuzzy_7: the App component's  *)
(* state (term set, item names, criteria matrix, alternative matrices),    *)
(* the LinguisticTermEditor's state (localTerms, errors) and the handlers  *)
(* that change them.                                                       *)
(*                                                                         *)
(* Conventions of the translation                                          *)
(*  - A JavaScript number is the double nearest to a rational: <<n, d>>    *)
(*    in lowest terms with d > 0 stands for the double nearest to n/d,     *)
(*    <<n, d, k>> for the double k units in the last place away from it,   *)
(*    <<1, 0>> and <<-1, 0>> for Infinity and -Infinity.  Division rounds  *)
(*    as IEEE-754 binary64 does, so 1/(1/x) need not be x.  The model      *)
(*    forms integers below 100, 5/2, and reciprocals of these.  Signed     *)
(*    zero and subnormal numbers are not modelled.                         *)
(*  - Arrays are sequences, so every index is the source's index plus 1.   *)
(*  - A string that the code inspects character by character (shortName,   *)
(*    the text typed into a numeric field) is a sequence of one-character  *)
(*    strings.  A name (of a term, a criterion, an alternative) is the     *)
(*    sequence of the pieces it is built from, so that a template literal  *)
(*    such as `New Term ${n}` is <<"New Term ", n>>.  The Ukrainian        *)
(*    literals of the source are transliterated to ASCII.                  *)
(*  - A handler is one action.  The state updates it queues and the        *)
(*    effects they trigger (useEffect, useMemo) are part of that action.   *)
(***************************************************************************)
EXTENDS Integers, Sequences, FiniteSets, TLC

VARIABLES
    terms,          \* App: useState(DEFAULT_TERMS), the accepted term set
    criteriaNames,  \* App: useState(INITIAL_CRITERIA_NAMES)
    altNames,       \* App: useState(INITIAL_ALT_NAMES)
    critMatrix,     \* App: useState(getInitialCritMatrixState)
    altMatrices,    \* App: useState(getInitialAltMatricesState)
    modalOpen,      \* App: useState(false), the editor dialog's open prop
    localTerms,     \* LinguisticTermEditor: useState(terms)
    errors,         \* LinguisticTermEditor: useState({})
    results,        \* App: the value of the results useMemo
    lastOp,         \* history: the handler that ran last, and its arguments
    steps           \* history: number of handler runs so far

vars == <<terms, criteriaNames, altNames, critMatrix, altMatrices,
          modalOpen, localTerms, errors, results, lastOp, steps>>

-----------------------------------------------------------------------------
(* Bounds of the exploration *)

\* handler runs explored from the initial session
MaxSteps == 4
\* addCriterion is explored while there are fewer criteria than this
MaxCrit == 6
\* addAlternative is explored while there are fewer alternatives than this
MaxAlt == 4
\* addTerm is explored while the editor lists fewer terms than this
MaxTerms == 10
\* handler runs explored in the editor alone, deleteTerm not counted
MaxEditorSteps == 3

-----------------------------------------------------------------------------
(* JavaScript numbers *)

Abs(n) == IF n < 0 THEN -n ELSE n

RECURSIVE GCD(_, _)
GCD(a, b) == IF b = 0 THEN a ELSE GCD(b, a % b)

\* the double nearest to n/d (d # 0), named by n/d in lowest terms with a
\* positive denominator
Rat(n, d) ==
    LET g == GCD(Abs(n), Abs(d))
        s == IF d < 0 THEN -1 ELSE 1
    IN  <<(s * n) \div g, (s * d) \div g>>

Num(n) == <<n, 1>>
Infinity == <<1, 0>>
NegInfinity == <<-1, 0>>

\* units in the last place between x and the double nearest to x[1]/x[2]
Ulps(x) == IF Len(x) = 3 THEN x[3] ELSE 0

IsZero(x) == x[1] = 0 /\ x[2] # 0

\* the largest exponent of a finite double: 2^1024 and above are Infinity
MaxExponent == 1023

\* the exponent of the smallest double above 0, Number.MIN_VALUE = 5e-324
MinExponent == -1074

\* the double s * 2^e, s = 1 or -1, for an exponent far outside those of
\* the fractions: MinExponent <= e < -64 or 64 < e <= MaxExponent
Pow2Num(s, e) == <<s, 1, 0, e>>

\* the exponent of such a double; 0 for a fraction, beyond every exponent
\* for an infinity
Scale(x) ==
    IF x[2] = 0 THEN MaxExponent + 1
    ELSE IF Len(x) = 4 THEN x[4]
    ELSE 0

Sign(x) == IF x[1] < 0 THEN -1 ELSE IF x[1] > 0 THEN 1 ELSE 0

\* a < b, a >= b of the source (operands are never NaN)
Less(a, b) ==
    IF Len(a) = 4 \/ Len(b) = 4
    THEN \/ Sign(a) < Sign(b)
         \/ Sign(a) = Sign(b) /\ Sign(a) * Scale(a) < Sign(b) * Scale(b)
    ELSE \/ a[1] * b[2] < b[1] * a[2]
         \/ a[1] * b[2] = b[1] * a[2] /\ Ulps(a) < Ulps(b)
GreaterEq(a, b) == ~Less(a, b)

\* n/d with d a power of two is a double
RECURSIVE IsPow2(_)
IsPow2(d) == d = 1 \/ (d > 1 /\ d % 2 = 0 /\ IsPow2(d \div 2))

\* binary64, round to nearest even: the v among the integers 1..100 and 5/2
\* for which 1/(1/v) is not v, with the units in the last place it is off by
InexactRoundTrips ==
    (Num(49) :> 1) @@ (Num(93) :> -1) @@ (Num(98) :> 1) @@ (Num(99) :> -1)

RoundTripUlps(v) ==
    LET a == <<Abs(v[1]), v[2]>>
    IN  IF a \in DOMAIN InexactRoundTrips
        THEN (IF v[1] < 0 THEN -1 ELSE 1) * InexactRoundTrips[a]
        ELSE 0

\* the JavaScript expression 1 / x: the quotient rounded to a double.  When
\* x is a double n/d the quotient is d/n; when x is the double nearest to 1/v
\* the result is v or a neighbour of v; the reciprocal of a neighbour of v
\* rounds to the double nearest to 1/v; the quotient of 1 and s * 2^e is
\* s * 2^-e, which is an infinity when -e is above MaxExponent
Div1(x) ==
    IF x[2] = 0 THEN Num(0)
    ELSE IF x[1] = 0 THEN Infinity
    ELSE IF Len(x) = 4
         THEN (IF -x[4] > MaxExponent THEN <<x[1], 0>> ELSE Pow2Num(x[1], -x[4]))
    ELSE LET v == Rat(x[2], x[1])
         IN  IF Len(x) = 3 \/ IsPow2(x[2]) \/ RoundTripUlps(v) = 0 THEN v
             ELSE <<v[1], v[2], RoundTripUlps(v)>>

\* Math.round(x): the integer nearest to x, halves rounded up
MathRound(x) ==
    IF x[2] = 0 THEN x
    ELSE IF Ulps(x) < 0 /\ (2 * x[1] + x[2]) % (2 * x[2]) = 0
         THEN Num((2 * x[1] + x[2]) \div (2 * x[2]) - 1)
         ELSE Num((2 * x[1] + x[2]) \div (2 * x[2]))

-----------------------------------------------------------------------------
(* Natural numbers of any size: the limbs in base 2^15, least significant  *)
(* first, the last limb not 0; <<>> is 0.  (TLC's integers are 32 bits,    *)
(* a double's significand is 53.)                                          *)

LimbBits == 15
Limb == 32768

RECURSIVE Pow2(_)
Pow2(k) == IF k = 0 THEN 1 ELSE 2 * Pow2(k - 1)

RECURSIVE NNorm(_)
NNorm(a) ==
    IF a # <<>> /\ a[Len(a)] = 0 THEN NNorm(SubSeq(a, 1, Len(a) - 1)) ELSE a

\* a small natural as limbs
RECURSIVE NOf(_)
NOf(n) == IF n = 0 THEN <<>> ELSE <<n % Limb>> \o NOf(n \div Limb)

HeadOr0(a) == IF a = <<>> THEN 0 ELSE Head(a)
TailOrEmpty(a) == IF a = <<>> THEN <<>> ELSE Tail(a)

RECURSIVE NAddC(_, _, _)
NAddC(a, b, c) ==
    IF a = <<>> /\ b = <<>> THEN (IF c = 0 THEN <<>> ELSE <<c>>)
    ELSE LET x == HeadOr0(a) + HeadOr0(b) + c
         IN  <<x % Limb>> \o NAddC(TailOrEmpty(a), TailOrEmpty(b), x \div Limb)

NAdd(a, b) == NAddC(a, b, 0)

\* a - b - c for a >= b + c, before the leading zeros are dropped
RECURSIVE NSubB(_, _, _)
NSubB(a, b, c) ==
    IF a = <<>> THEN <<>>
    ELSE LET x == Head(a) - HeadOr0(b) - c
         IN  IF x < 0 THEN <<x + Limb>> \o NSubB(Tail(a), TailOrEmpty(b), 1)
             ELSE <<x>> \o NSubB(Tail(a), TailOrEmpty(b), 0)

NSub(a, b) == NNorm(NSubB(a, b, 0))

\* -1, 0, 1 as the limbs a[1..i] are less than, equal to, greater than b[1..i]
RECURSIVE NCmpFrom(_, _, _)
NCmpFrom(a, b, i) ==
    IF i = 0 THEN 0
    ELSE IF a[i] < b[i] THEN -1
    ELSE IF a[i] > b[i] THEN 1
    ELSE NCmpFrom(a, b, i - 1)

NCmp(a, b) ==
    IF Len(a) < Len(b) THEN -1
    ELSE IF Len(a) > Len(b) THEN 1
    ELSE NCmpFrom(a, b, Len(a))

\* a * k + c for 0 <= k, c < 2^15
RECURSIVE NMulSmallC(_, _, _)
NMulSmallC(a, k, c) ==
    IF a = <<>> THEN (IF c = 0 THEN <<>> ELSE <<c>>)
    ELSE LET x == Head(a) * k + c
         IN  <<x % Limb>> \o NMulSmallC(Tail(a), k, x \div Limb)

NMulSmall(a, k) == IF k = 0 THEN <<>> ELSE NMulSmallC(a, k, 0)

\* a * b, one limb of b at a time
RECURSIVE NMulBy(_, _)
NMulBy(a, b) ==
    IF a = <<>> \/ b = <<>> THEN <<>>
    ELSE LET rest == NMulBy(a, Tail(b))
         IN  NAdd(NMulSmall(a, Head(b)), IF rest = <<>> THEN <<>> ELSE <<0>> \o rest)

NMul(a, b) == IF Len(b) > Len(a) THEN NMulBy(b, a) ELSE NMulBy(a, b)

\* a * 2^k
NShl(a, k) ==
    IF a = <<>> THEN <<>>
    ELSE [i \in 1..(k \div LimbBits) |-> 0] \o NMulSmall(a, Pow2(k % LimbBits))

\* floor(a / d) for 0 < d <= 2^15, from the most significant limb down, r
\* being the remainder carried in
RECURSIVE NDivSmallR(_, _, _)
NDivSmallR(a, d, r) ==
    IF a = <<>> THEN <<>>
    ELSE LET x == r * Limb + a[Len(a)]
         IN  NDivSmallR(SubSeq(a, 1, Len(a) - 1), d, x % d) \o <<x \div d>>

\* floor(a / 2^k)
NShr(a, k) ==
    LET limbs == k \div LimbBits
    IN  IF limbs >= Len(a) THEN <<>>
        ELSE NNorm(NDivSmallR(SubSeq(a, limbs + 1, Len(a)), Pow2(k % LimbBits), 0))

\* the number of bits of a small natural
RECURSIVE BitsOf(_)
BitsOf(n) == IF n = 0 THEN 0 ELSE 1 + BitsOf(n \div 2)

\* the number of bits of a
NBits(a) == IF a = <<>> THEN 0 ELSE LimbBits * (Len(a) - 1) + BitsOf(a[Len(a)])

NIsOdd(a) == a # <<>> /\ a[1] % 2 = 1

\* the number of trailing zero bits of a # 0
RECURSIVE TrailingZerosOf(_)
TrailingZerosOf(n) == IF n % 2 = 1 THEN 0 ELSE 1 + TrailingZerosOf(n \div 2)

RECURSIVE NTrailingZeros(_)
NTrailingZeros(a) ==
    IF Head(a) = 0 THEN LimbBits + NTrailingZeros(Tail(a)) ELSE TrailingZerosOf(Head(a))

\* the largest d in lo..hi with b * d <= r, by bisection
RECURSIVE NDigit(_, _, _, _)
NDigit(r, b, lo, hi) ==
    IF lo = hi THEN lo
    ELSE LET mid == (lo + hi + 1) \div 2
         IN  IF NCmp(NMulSmall(b, mid), r) <= 0 THEN NDigit(r, b, mid, hi)
             ELSE NDigit(r, b, lo, mid - 1)

\* long division, one limb of the quotient at a time: <<quotient, remainder>>
\* of a / b, given those of the limbs of a above limb i
RECURSIVE NDivModFrom(_, _, _, _, _)
NDivModFrom(a, b, i, q, r) ==
    IF i = 0 THEN <<q, r>>
    ELSE LET r2 == NNorm(<<a[i]>> \o r)
             d  == NDigit(r2, b, 0, Limb - 1)
         IN  NDivModFrom(a, b, i - 1, NNorm(<<d>> \o q), NSub(r2, NMulSmall(b, d)))

NDivMod(a, b) == NDivModFrom(a, b, Len(a), <<>>, <<>>)

\* a^n for n >= 1
RECURSIVE NPower(_, _)
NPower(a, n) == IF n = 1 THEN a ELSE NMul(a, NPower(a, n - 1))

\* the largest d in lo..hi with (r * 2^15 + d)^n <= a, by bisection
RECURSIVE NRootDigit(_, _, _, _, _)
NRootDigit(a, n, r, lo, hi) ==
    IF lo = hi THEN lo
    ELSE LET mid == (lo + hi + 1) \div 2
         IN  IF NCmp(NPower(NNorm(<<mid>> \o r), n), a) <= 0
             THEN NRootDigit(a, n, r, mid, hi)
             ELSE NRootDigit(a, n, r, lo, mid - 1)

\* the floor of the n-th root of a, one limb of the root at a time: r is the
\* root of the limbs of a above the j-th group of n limbs
RECURSIVE NRootFrom(_, _, _, _)
NRootFrom(a, n, r, j) ==
    IF j = 0 THEN r
    ELSE LET top == SubSeq(a, n * (j - 1) + 1, Len(a))
             d   == NRootDigit(top, n, r, 0, Limb - 1)
         IN  NRootFrom(a, n, NNorm(<<d>> \o r), j - 1)

NRoot(a, n) == NRootFrom(a, n, <<>>, (Len(a) + n - 1) \div n)

-----------------------------------------------------------------------------
(* IEEE-754 binary64, the Number of the computation of the results, bit by *)
(* bit: a finite double is s * m * 2^e with s the sign, m odd (or 0) and   *)
(* below 2^53.  Every operation is rounded to nearest, ties to even.  The  *)
(* exponent is not bounded and zero has no sign: no value of the model     *)
(* comes near the ends of the range.                                       *)

SignificandBits == 53

DNum(s, m, e) == [k |-> "num", s |-> s, m |-> m, e |-> e]
DZero == DNum(1, <<>>, 0)
DNaN == [k |-> "nan", s |-> 1, m |-> <<>>, e |-> 0]
DInfinity(s) == [k |-> "inf", s |-> s, m |-> <<>>, e |-> 0]

DIsNaN(x) == x.k = "nan"
DIsZero(x) == x.k = "num" /\ x.m = <<>>
DIsFinite(x) == x.k = "num"

\* s * q * 2^exp for q above 0, with the significand made odd
DNormal(s, q, exp) == DNum(s, NShr(q, NTrailingZeros(q)), exp + NTrailingZeros(q))

\* q the leading 53 bits of a significand, c the comparison of the bits that
\* were dropped with half a unit of q: to nearest, ties to even
DRoundUp(s, q, c, exp, sticky) ==
    DNormal(s, IF c > 0 \/ (c = 0 /\ (sticky \/ NIsOdd(q))) THEN NAdd(q, <<1>>) ELSE q, exp)

\* mant with its last sh bits dropped, q the bits that are left
DRoundAt(s, mant, q, sh, exp, sticky) ==
    DRoundUp(s, q, NCmp(NSub(mant, NShl(q, sh)), NShl(<<1>>, sh - 1)), exp + sh, sticky)

\* the double nearest s * mant * 2^exp, or nearest a real just above that
\* when sticky (mant then has more than 53 bits)
DRound(s, mant, exp, sticky) ==
    IF mant = <<>> THEN DZero
    ELSE IF NBits(mant) > SignificandBits
         THEN DRoundAt(s, mant, NShr(mant, NBits(mant) - SignificandBits),
                       NBits(mant) - SignificandBits, exp, sticky)
    ELSE DNormal(s, mant, exp)

DOfInt(n) == DRound(IF n < 0 THEN -1 ELSE 1, NOf(IF n < 0 THEN -n ELSE n), 0, FALSE)

DNeg(x) == IF x.k = "nan" \/ DIsZero(x) THEN x ELSE [x EXCEPT !.s = -x.s]

Min(a, b) == IF a < b THEN a ELSE b
Max(a, b) == IF a > b THEN a ELSE b

\* sx * X * 2^exp + sy * Y * 2^exp
DAddAligned(sx, X, sy, Y, exp) ==
    DRound(IF sx = sy \/ NCmp(X, Y) > 0 THEN sx ELSE sy,
           IF sx = sy THEN NAdd(X, Y)
           ELSE IF NCmp(X, Y) >= 0 THEN NSub(X, Y)
           ELSE NSub(Y, X),
           exp, FALSE)

\* x + y
DAdd(x, y) ==
    IF DIsNaN(x) \/ DIsNaN(y) THEN DNaN
    ELSE IF x.k = "inf" THEN (IF y.k = "inf" /\ y.s # x.s THEN DNaN ELSE x)
    ELSE IF y.k = "inf" THEN y
    ELSE IF DIsZero(x) THEN y
    ELSE IF DIsZero(y) THEN x
    ELSE DAddAligned(x.s, NShl(x.m, x.e - Min(x.e, y.e)),
                     y.s, NShl(y.m, y.e - Min(x.e, y.e)), Min(x.e, y.e))

DSub(x, y) == DAdd(x, DNeg(y))

\* x * y
DMul(x, y) ==
    IF DIsNaN(x) \/ DIsNaN(y) THEN DNaN
    ELSE IF x.k = "inf" \/ y.k = "inf"
         THEN (IF DIsZero(x) \/ DIsZero(y) THEN DNaN ELSE DInfinity(x.s * y.s))
    ELSE IF DIsZero(x) \/ DIsZero(y) THEN DZero
    ELSE DRound(x.s * y.s, NMul(x.m, y.m), x.e + y.e, FALSE)

\* qr the quotient and the remainder of the significands
DDivRound(s, qr, exp) == DRound(s, qr[1], exp, qr[2] # <<>>)

\* x / y for finite x and y other than 0, with k more bits in the dividend
DDivBy(x, y, k) == DDivRound(x.s * y.s, NDivMod(NShl(x.m, k), y.m), x.e - y.e - k)

\* x / y
DDiv(x, y) ==
    IF DIsNaN(x) \/ DIsNaN(y) THEN DNaN
    ELSE IF x.k = "inf" THEN (IF y.k = "inf" THEN DNaN ELSE DInfinity(x.s * y.s))
    ELSE IF y.k = "inf" THEN DZero
    ELSE IF DIsZero(y) THEN (IF DIsZero(x) THEN DNaN ELSE DInfinity(x.s))
    ELSE IF DIsZero(x) THEN DZero
    ELSE DDivBy(x, y, Max(0, SignificandBits + 3 + NBits(y.m) - NBits(x.m)))

\* r the whole part of the n-th root of M
DRootRound(M, r, n, exp) == DRound(1, r, exp, NPower(r, n) # M)

DRootOf(M, n, exp) == DRootRound(M, NRoot(M, n), n, exp)

\* the root of x.m * 2^x.e with k more bits, x.e - k a multiple of n
DRootBy(x, n, k) == DRootOf(NShl(x.m, k), n, (x.e - k) \div n)

DRootFrom(x, n, k0) == DRootBy(x, n, k0 + ((x.e - k0) % n))

\* the double nearest the n-th root of x, n >= 2
DRoot(x, n) ==
    IF DIsNaN(x) THEN DNaN
    ELSE IF DIsZero(x) THEN DZero
    ELSE IF x.s < 0 THEN DNaN
    ELSE IF x.k = "inf" THEN x
    ELSE DRootFrom(x, n, Max(0, n * (SignificandBits + 2) - NBits(x.m)))

DIsNegative(x) == x.k # "nan" /\ ~DIsZero(x) /\ x.s < 0

\* x < y
DLess(x, y) == ~DIsNaN(x) /\ ~DIsNaN(y) /\ DIsNegative(DSub(x, y))

-----------------------------------------------------------------------------
(* Math helpers *)

Tri(l, m, u) == [l |-> l, m |-> m, u |-> u]

T_ONE == Tri(Num(1), Num(1), Num(1))

\* a variant that takes the reciprocal of m where that of l belongs
fuzzyInverse_mforl(t) ==
    Tri(IF ~IsZero(t.u) THEN Div1(t.u) ELSE Num(0),
        IF ~IsZero(t.m) THEN Div1(t.m) ELSE Num(0),
        IF ~IsZero(t.m) THEN Div1(t.m) ELSE Num(0))

fuzzyInverse(t) ==
    Tri(IF ~IsZero(t.u) THEN Div1(t.u) ELSE Num(0),
        IF ~IsZero(t.m) THEN Div1(t.m) ELSE Num(0),
        IF ~IsZero(t.l) THEN Div1(t.l) ELSE Num(0))

-----------------------------------------------------------------------------
(* The computation of the results, on doubles given bit by bit *)

\* the double k units in the last place above x (below, for k < 0)
DNudge(x, k) ==
    LET sh   == SignificandBits - NBits(x.m)
        M    == NShl(x.m, sh)
        \* below a power of two the doubles lie twice as close
        fine == k < 0 /\ M = NShl(<<1>>, SignificandBits - 1)
    IN  DRound(x.s,
               IF k >= 0 THEN NAdd(M, NOf(k))
               ELSE IF fine THEN NSub(NShl(M, 1), NOf(-k))
               ELSE NSub(M, NOf(-k)),
               IF fine THEN x.e - sh - 1 ELSE x.e - sh,
               FALSE)

\* the bits of the double that the matrices name by a fraction
DOfNearest(nearest, k) == IF k = 0 THEN nearest ELSE DNudge(nearest, k)

DOf(x) ==
    IF x[2] = 0 THEN DInfinity(x[1])
    ELSE DOfNearest(DDiv(DOfInt(x[1]), DOfInt(x[2])), Ulps(x))

Fields == {"l", "m", "u"}

\* the triple with the components f gives by name
TriOf(f) == Tri(f["l"], f["m"], f["u"])

DTri(t) == TriOf([f \in Fields |-> DOf(t[f])])

DOne == DOfInt(1)

\* fuzzyInverse, on doubles given bit by bit
\* l is taken from u and u from l
Mirror == [l |-> "u", m |-> "m", u |-> "l"]

fuzzyInverseD(t) ==
    TriOf([f \in Fields |-> IF ~DIsZero(t[Mirror[f]]) THEN DDiv(DOne, t[Mirror[f]]) ELSE DZero])

fuzzyMultiply(t1, t2) == TriOf([f \in Fields |-> DMul(t1[f], t2[f])])

\* Math.pow(x, 1 / n) for n >= 1.  Math.pow(x, 1) is x, Math.pow(1, y) is 1,
\* Math.pow(0, y) is 0 for y > 0, a negative x to a power that is no integer
\* is NaN, and Math.pow(x, 0.5) is Math.sqrt(x), which is rounded correctly.
\* For n >= 3 and any other x, Math.pow is implementation-approximated: the
\* model gives the double nearest the root, and an engine may return a double
\* a few units in the last place away from it.
MathPow(x, n) ==
    IF DIsNaN(x) THEN DNaN
    ELSE IF n = 1 \/ x = DOne THEN x
    ELSE DRoot(x, n)

\* numbers.forEach(num => { prodL *= num.l; ... }), from the product so far
RECURSIVE Products(_, _)
Products(numbers, acc) ==
    IF numbers = <<>> THEN acc
    ELSE Products(Tail(numbers), fuzzyMultiply(acc, Head(numbers)))

\* a variant that leaves the products as they are, without the root
fuzzyGeoMean_noroot(numbers) == Products(numbers, Tri(DOne, DOne, DOne))

\* Math.pow(prodL, 1 / n), Math.pow(prodM, 1 / n), Math.pow(prodU, 1 / n)
Roots(prod, n) == TriOf([f \in Fields |-> MathPow(prod[f], n)])

fuzzyGeoMean(numbers) == Roots(Products(numbers, Tri(DOne, DOne, DOne)), Len(numbers))

\* numbers.reduce((acc, curr) => ..., acc)
RECURSIVE fuzzySumFrom(_, _)
fuzzySumFrom(numbers, acc) ==
    IF numbers = <<>> THEN acc
    ELSE fuzzySumFrom(Tail(numbers),
                      TriOf([f \in Fields |-> DAdd(acc[f], Head(numbers)[f])]))

fuzzySum(numbers) == fuzzySumFrom(numbers, Tri(DZero, DZero, DZero))

\* xs.reduce((a, b) => a + b, acc)
RECURSIVE SumFrom(_, _)
SumFrom(xs, acc) == IF xs = <<>> THEN acc ELSE SumFrom(Tail(xs), DAdd(acc, Head(xs)))

\* (t.l + t.m + t.u) / 3, summed from the left
centerOfArea(t) == DDiv(SumFrom(<<t.m, t.u>>, t.l), DOfInt(3))

\* the array that map() returns for f: every element is computed, once
Array(f) == f \o <<>>

\* matrix.map(row => fuzzyGeoMean(row.map(c => c.tri)))
GeoMeans(mat) ==
    Array([r \in 1..Len(mat) |->
              fuzzyGeoMean(Array([c \in 1..Len(mat[r]) |-> DTri(mat[r][c].tri)]))])

\* a variant that normalises by the number of rows, not by the sum
normWeights_bycount(defuzzified, sumDefuzz) ==
    [r \in 1..Len(defuzzified) |-> DDiv(defuzzified[r], DOfInt(Len(defuzzified)))] \o <<>>

\* a variant that divides by the sum whatever it is
normWeights_noguard(defuzzified, sumDefuzz) ==
    Array([r \in 1..Len(defuzzified) |-> DDiv(defuzzified[r], sumDefuzz)])

\* defuzzified.map(w => sumDefuzz !== 0 ? w / sumDefuzz : 0)
normWeights(defuzzified, sumDefuzz) ==
    Array([r \in 1..Len(defuzzified) |->
              IF ~DIsZero(sumDefuzz) THEN DDiv(defuzzified[r], sumDefuzz) ELSE DZero])

\* the weights of one matrix, one step of the computation after the other:
\* the geometric means of the rows, their sum, its inverse, the fuzzy weights,
\* their centres of area, the sum of those, and the centres normalised
WeightsNormalized(geoMeans, sumGeoMeans, invSum, fuzzyWeights, defuzzified, sumDefuzz) ==
    [geoMeans     |-> geoMeans,
     sumGeoMeans  |-> sumGeoMeans,
     invSum       |-> invSum,
     fuzzyWeights |-> fuzzyWeights,
     defuzzified  |-> defuzzified,
     sumDefuzz    |-> sumDefuzz,
     normWeights  |-> normWeights(defuzzified, sumDefuzz)]

WeightsDefuzzified(geoMeans, sumGeoMeans, invSum, fuzzyWeights, defuzzified) ==
    WeightsNormalized(geoMeans, sumGeoMeans, invSum, fuzzyWeights, defuzzified,
                      SumFrom(defuzzified, DZero))

WeightsMultiplied(geoMeans, sumGeoMeans, invSum, fuzzyWeights) ==
    WeightsDefuzzified(geoMeans, sumGeoMeans, invSum, fuzzyWeights,
                       Array([r \in 1..Len(fuzzyWeights) |-> centerOfArea(fuzzyWeights[r])]))

WeightsInverted(geoMeans, sumGeoMeans, invSum) ==
    WeightsMultiplied(geoMeans, sumGeoMeans, invSum,
                      Array([r \in 1..Len(geoMeans) |-> fuzzyMultiply(geoMeans[r], invSum)]))

WeightsSummed(geoMeans, sumGeoMeans) ==
    WeightsInverted(geoMeans, sumGeoMeans, fuzzyInverseD(sumGeoMeans))

WeightsOfMeans(geoMeans) == WeightsSummed(geoMeans, fuzzySum(geoMeans))

Weights(mat) == WeightsOfMeans(GeoMeans(mat))

\* w || 0 for a number w, and for an index past the end of ws
NumberOrZero(ws, i) ==
    IF i \in DOMAIN ws /\ ~DIsNaN(ws[i]) /\ ~DIsZero(ws[i]) THEN ws[i] ELSE DZero

\* the loop over cIdx, from cIdx on with the score so far
RECURSIVE ScoreFrom(_, _, _, _, _)
ScoreFrom(critNormWeights, altLocalWeights, altIdx, cIdx, score) ==
    IF cIdx > Len(altLocalWeights) THEN score
    ELSE LET critWeight == NumberOrZero(critNormWeights, cIdx)
             altWeight  == NumberOrZero(altLocalWeights[cIdx], altIdx)
         IN  ScoreFrom(critNormWeights, altLocalWeights, altIdx, cIdx + 1,
                       DAdd(score, DMul(critWeight, altWeight)))

\* a variant that adds up the local weights without the weights of the
\* criteria
globalScores_unweighted(critNormWeights, altLocalWeights, an) ==
    Array([altIdx \in 1..Len(an) |->
              ScoreFrom([c \in 1..Len(critNormWeights) |-> DOne],
                        altLocalWeights, altIdx, 1, DZero)])

\* numCriteria is the number of matrices when the guard lets the computation
\* run
globalScores(critNormWeights, altLocalWeights, an) ==
    Array([altIdx \in 1..Len(an) |->
              ScoreFrom(critNormWeights, altLocalWeights, altIdx, 1, DZero)])

\* (a, b) => b.score - a.score is positive: b is to come before a
ComesBefore(b, a) == DLess(a.score, b.score)

\* Array.prototype.sort is stable: an entry goes behind every entry already
\* placed that it is not to come before
RECURSIVE InsertByScore(_, _)
InsertByScore(sorted, x) ==
    IF sorted = <<>> THEN <<x>>
    ELSE IF ComesBefore(x, Head(sorted)) THEN <<x>> \o sorted
    ELSE <<Head(sorted)>> \o InsertByScore(Tail(sorted), x)

RECURSIVE SortByScore(_)
SortByScore(xs) ==
    IF xs = <<>> THEN <<>>
    ELSE InsertByScore(SortByScore(SubSeq(xs, 1, Len(xs) - 1)), xs[Len(xs)])

\* a variant that sorts by rising score
ranked_rising(scores, an) ==
    LET entries == [idx \in 1..Len(scores) |-> [name |-> an[idx], score |-> DNeg(scores[idx]), idx |-> idx]]
        sorted  == SortByScore(entries)
    IN  [i \in 1..Len(sorted) |-> [sorted[i] EXCEPT !.score = DNeg(sorted[i].score)]]

\* idx counts from 1 here, from 0 in the source
ranked(scores, an) ==
    SortByScore(Array([idx \in 1..Len(scores) |->
                          [name |-> an[idx], score |-> scores[idx], idx |-> idx]]))

-----------------------------------------------------------------------------
(* Constants and initial data *)

Term(id, name, shortName, value, tri) ==
    [id |-> id, name |-> name, shortName |-> shortName, value |-> value, tri |-> tri]

DEFAULT_TERMS == <<
    Term("1", <<"Equally important">>,    <<"E", "I">>,           Num(1), Tri(Num(1), Num(1), Num(1))),
    Term("2", <<"Intermediate value">>,   <<"I", "V", "1", "3">>, Num(2), Tri(Num(1), Num(2), Num(3))),
    Term("3", <<"Weakly important">>,     <<"W", "I">>,           Num(3), Tri(Num(2), Num(3), Num(4))),
    Term("4", <<"Intermediate value">>,   <<"I", "V", "3", "5">>, Num(4), Tri(Num(3), Num(4), Num(5))),
    Term("5", <<"Fairly important">>,     <<"F", "I">>,           Num(5), Tri(Num(4), Num(5), Num(6))),
    Term("6", <<"Intermediate value">>,   <<"I", "V", "5", "7">>, Num(6), Tri(Num(5), Num(6), Num(7))),
    Term("7", <<"Strongly important">>,   <<"S", "I">>,           Num(7), Tri(Num(6), Num(7), Num(8))),
    Term("8", <<"Intermediate value">>,   <<"I", "V", "7", "9">>, Num(8), Tri(Num(7), Num(8), Num(9))),
    Term("9", <<"Absolutely important">>, <<"A", "I">>,           Num(9), Tri(Num(9), Num(9), Num(9))) >>

INITIAL_CRITERIA_NAMES == <<
    <<"C1 (cargo support)">>,
    <<"C2 (cargo insurance)">>,
    <<"C3 (vehicle monitoring)">>,
    <<"C4 (cargo safety)">>,
    <<"C5 (timeliness of delivery)">> >>

INITIAL_ALT_NAMES == <<
    <<"A1 (Company A)">>,
    <<"A2 (Company B)">>,
    <<"A3 (Company C)">> >>

\* terms.find(t => t.value === v): the first term with that value, as a
\* sequence of at most one term
RECURSIVE FindByValue(_, _)
FindByValue(ts, v) ==
    IF ts = <<>> THEN <<>>
    ELSE IF Head(ts).value = v THEN <<Head(ts)>>
    ELSE FindByValue(Tail(ts), v)

\* a variant that looks the term up by 1 / val as it is, without rounding
getTriForValue_noround(val, ts) ==
    IF GreaterEq(val, Num(1))
    THEN LET t == FindByValue(ts, val)
         IN  IF t # <<>> THEN t[1].tri ELSE T_ONE
    ELSE LET baseVal == Div1(val)
             t == FindByValue(ts, baseVal)
         IN  IF t # <<>> THEN fuzzyInverse(t[1].tri) ELSE T_ONE

getTriForValue(val, ts) ==
    IF GreaterEq(val, Num(1))
    THEN LET t == FindByValue(ts, val)
         IN  IF t # <<>> THEN t[1].tri ELSE T_ONE
    ELSE LET baseVal == MathRound(Div1(val))
             t == FindByValue(ts, baseVal)
         IN  IF t # <<>> THEN fuzzyInverse(t[1].tri) ELSE T_ONE

Cell(tri, isInverse, saatyValue) ==
    [tri |-> tri, isInverse |-> isInverse, saatyValue |-> saatyValue]

\* { tri: T_ONE, isInverse: false, saatyValue: 1 }
OneCell == Cell(T_ONE, FALSE, Num(1))

\* upper.saatyValue || 1
OrOne(v) == IF IsZero(v) THEN Num(1) ELSE v

\* a variant that builds the matrix one row and one column short
getInitialMatrix_short(size, ts, initialData) ==
    [r \in 1..(size - 1) |-> [c \in 1..(size - 1) |-> OneCell]]

\* initialData is a function from the pairs <<r, c>> that have a value
getInitialMatrix(size, ts, initialData) ==
    LET upper(r, c) ==
            IF <<r, c>> \in DOMAIN initialData /\ ~IsZero(initialData[<<r, c>>])
            THEN LET val == initialData[<<r, c>>]
                 IN  Cell(getTriForValue(val, ts), Less(val, Num(1)), val)
            ELSE OneCell
    IN  [r \in 1..size |->
            [c \in 1..size |->
                IF r = c THEN OneCell
                ELSE IF r < c THEN upper(r, c)
                ELSE Cell(fuzzyInverse(upper(c, r).tri), TRUE,
                          Div1(OrOne(upper(c, r).saatyValue)))]]

NoData == [p \in {} |-> Num(1)]

initialCritValues ==
    (<<1, 2>> :> Num(3)) @@ (<<1, 3>> :> Num(4)) @@ (<<1, 4>> :> Num(1)) @@ (<<1, 5>> :> Rat(1, 2)) @@
    (<<2, 3>> :> Num(2)) @@ (<<2, 4>> :> Rat(1, 3)) @@ (<<2, 5>> :> Num(1)) @@
    (<<3, 4>> :> Rat(1, 5)) @@ (<<3, 5>> :> Rat(1, 3)) @@
    (<<4, 5>> :> Rat(1, 2))

initialAlt1Values == (<<1, 2>> :> Num(2)) @@ (<<1, 3>> :> Num(4)) @@ (<<2, 3>> :> Num(3))
initialAlt2Values == (<<1, 2>> :> Rat(1, 3)) @@ (<<1, 3>> :> Rat(1, 5)) @@ (<<2, 3>> :> Rat(1, 3))
initialAlt3Values == (<<1, 2>> :> Rat(1, 3)) @@ (<<1, 3>> :> Num(2)) @@ (<<2, 3>> :> Num(3))
initialAlt4Values == (<<1, 2>> :> Num(1)) @@ (<<1, 3>> :> Num(2)) @@ (<<2, 3>> :> Num(2))
initialAlt5Values == (<<1, 2>> :> Num(2)) @@ (<<1, 3>> :> Rat(1, 3)) @@ (<<2, 3>> :> Rat(1, 4))

getInitialCritMatrixState == getInitialMatrix(5, DEFAULT_TERMS, initialCritValues)

getInitialAltMatricesState == <<
    getInitialMatrix(3, DEFAULT_TERMS, initialAlt1Values),
    getInitialMatrix(3, DEFAULT_TERMS, initialAlt2Values),
    getInitialMatrix(3, DEFAULT_TERMS, initialAlt3Values),
    getInitialMatrix(3, DEFAULT_TERMS, initialAlt4Values),
    getInitialMatrix(3, DEFAULT_TERMS, initialAlt5Values) >>

-----------------------------------------------------------------------------
(* LinguisticTermEditor: helpers *)

Digits == {"0", "1", "2", "3", "4", "5", "6", "7", "8", "9"}

DigitVal(ch) ==
    CASE ch = "0" -> 0 [] ch = "1" -> 1 [] ch = "2" -> 2 [] ch = "3" -> 3
      [] ch = "4" -> 4 [] ch = "5" -> 5 [] ch = "6" -> 6 [] ch = "7" -> 7
      [] ch = "8" -> 8 [] ch = "9" -> 9

IsSpace(ch) == ch = " "

RECURSIVE TrimStart(_)
TrimStart(s) ==
    IF s # <<>> /\ IsSpace(Head(s)) THEN TrimStart(Tail(s)) ELSE s

RECURSIVE TrimEnd(_)
TrimEnd(s) ==
    IF s # <<>> /\ IsSpace(s[Len(s)]) THEN TrimEnd(SubSeq(s, 1, Len(s) - 1)) ELSE s

\* String.prototype.trim
Trim(s) == TrimEnd(TrimStart(s))

\* the longest prefix of s made of digits
RECURSIVE DigitPrefix(_)
DigitPrefix(s) ==
    IF s # <<>> /\ Head(s) \in Digits THEN <<Head(s)>> \o DigitPrefix(Tail(s)) ELSE <<>>

RECURSIVE DigitsValue(_, _)
DigitsValue(ds, acc) ==
    IF ds = <<>> THEN acc ELSE DigitsValue(Tail(ds), 10 * acc + DigitVal(Head(ds)))

RECURSIVE Pow10(_)
Pow10(k) == IF k = 0 THEN 1 ELSE 10 * Pow10(k - 1)

\* the sign of a numeric text and the text after it
SignOf(s) == IF s # <<>> /\ Head(s) = "-" THEN -1 ELSE 1
Unsigned(s) == IF s # <<>> /\ Head(s) \in {"-", "+"} THEN Tail(s) ELSE s

\* parseInt(text, 10), with NaN as <<>> and a number n as <<n>>
parseInt(text) ==
    LET s  == TrimStart(text)
        ds == DigitPrefix(Unsigned(s))
    IN  IF ds = <<>> THEN <<>> ELSE <<SignOf(s) * DigitsValue(ds, 0)>>

\* parseFloat(text) for decimal texts without an exponent, with NaN as <<>>
\* and a number x as <<x>>
parseFloat(text) ==
    LET s    == TrimStart(text)
        body == Unsigned(s)
        ip   == DigitPrefix(body)
        rest == SubSeq(body, Len(ip) + 1, Len(body))
        fp   == IF rest # <<>> /\ Head(rest) = "." THEN DigitPrefix(Tail(rest)) ELSE <<>>
    IN  IF ip = <<>> /\ fp = <<>> THEN <<>>
        ELSE <<Rat(SignOf(s) * (DigitsValue(ip, 0) * Pow10(Len(fp)) + DigitsValue(fp, 0)),
                   Pow10(Len(fp)))>>

\* isNaN(num) ? 0 : num
OrZero(parsed) == IF parsed = <<>> THEN Num(0) ELSE parsed[1]

\* [...ts].sort((a, b) => a.value - b.value); Array.prototype.sort is stable
RECURSIVE InsertByValue(_, _)
InsertByValue(sorted, t) ==
    IF sorted = <<>> THEN <<t>>
    ELSE IF Less(t.value, Head(sorted).value) THEN <<t>> \o sorted
    ELSE <<Head(sorted)>> \o InsertByValue(Tail(sorted), t)

RECURSIVE SortByValue(_)
SortByValue(ts) ==
    IF ts = <<>> THEN <<>>
    ELSE InsertByValue(SortByValue(SubSeq(ts, 1, Len(ts) - 1)), ts[Len(ts)])

\* a variant that does not look for duplicate values
TermErrors_nodupvalue(ts, i) ==
    LET sn == Trim(ts[i].shortName)
    IN  (IF sn = <<>> THEN {<<"shortName", "Obov'iazkovo">>}
         ELSE IF \E j \in 1..(i - 1) : Trim(ts[j].shortName) = sn
              THEN {<<"shortName", "Dublikat">>}
              ELSE {})
        \cup (IF Less(ts[i].tri.m, ts[i].tri.l) THEN {<<"l", "l <= m">>} ELSE {})
        \cup (IF Less(ts[i].tri.u, ts[i].tri.m) THEN {<<"m", "m <= u">>} ELSE {})

\* a variant that takes a term for a duplicate when any other term, earlier
\* or later, has its shortName or its value
TermErrors_anydup(ts, i) ==
    LET sn == Trim(ts[i].shortName)
    IN  (IF sn = <<>> THEN {<<"shortName", "Obov'iazkovo">>}
         ELSE IF \E j \in (1..Len(ts)) \ {i} : Trim(ts[j].shortName) = sn
              THEN {<<"shortName", "Dublikat">>}
              ELSE {})
        \cup (IF \E j \in (1..Len(ts)) \ {i} : ts[j].value = ts[i].value
              THEN {<<"value", "Dublikat">>} ELSE {})
        \cup (IF Less(ts[i].tri.m, ts[i].tri.l) THEN {<<"l", "l <= m">>} ELSE {})
        \cup (IF Less(ts[i].tri.u, ts[i].tri.m) THEN {<<"m", "m <= u">>} ELSE {})

\* the termErrors object validate builds for the term at index i: the set of
\* its <<field, message>> entries
TermErrors(ts, i) ==
    LET sn == Trim(ts[i].shortName)
    IN  (IF sn = <<>> THEN {<<"shortName", "Obov'iazkovo">>}
         ELSE IF \E j \in 1..(i - 1) : Trim(ts[j].shortName) = sn
              THEN {<<"shortName", "Dublikat">>}
              ELSE {})
        \cup (IF \E j \in 1..(i - 1) : ts[j].value = ts[i].value
              THEN {<<"value", "Dublikat">>} ELSE {})
        \cup (IF Less(ts[i].tri.m, ts[i].tri.l) THEN {<<"l", "l <= m">>} ELSE {})
        \cup (IF Less(ts[i].tri.u, ts[i].tri.m) THEN {<<"m", "m <= u">>} ELSE {})

MaxOf(S) == CHOOSE x \in S : \A y \in S : y <= x

\* validate(currentTerms): newErrors, keyed by term id; a later term with the
\* same id overwrites an earlier one
validate(ts) ==
    LET bad == {i \in 1..Len(ts) : TermErrors(ts, i) # {}}
    IN  [id \in {ts[i].id : i \in bad} |->
            TermErrors(ts, MaxOf({i \in bad : ts[i].id = id}))]

\* Object.keys(e).length > 0
HasKeys(e) == DOMAIN e # {}

NoErrors == [id \in {} |-> {}]

\* hasGlobalError, as rendered from the editor's state
hasGlobalError == HasKeys(errors) \/ Len(localTerms) < 2

MinOf(S) == CHOOSE x \in S : \A y \in S : x <= y

\* crypto.randomUUID(): an id no listed term has; which one is immaterial,
\* so the first unused of a fixed supply is taken
FreshIds == <<"u1", "u2", "u3">>
FreeIdIndexes(ts) == {k \in 1..Len(FreshIds) : \A i \in 1..Len(ts) : ts[i].id # FreshIds[k]}
randomUUID(ts) == FreshIds[MinOf(FreeIdIndexes(ts))]

\* the decimal digits of a natural number, as characters
DigitChar(d) == <<"0", "1", "2", "3", "4", "5", "6", "7", "8", "9">>[d + 1]

RECURSIVE NatChars(_)
NatChars(n) == IF n < 10 THEN <<DigitChar(n)>> ELSE NatChars(n \div 10) \o <<DigitChar(n % 10)>>

\* `${n}` for an integer n
IntChars(n) == IF n < 0 THEN <<"-">> \o NatChars(-n) ELSE NatChars(n)

\* Math.max(...ts.map(t => t.value)) for a non-empty ts of integer values
MaxValue(ts) == MaxOf({ts[i].value[1] : i \in 1..Len(ts)})

-----------------------------------------------------------------------------
(* App: helpers *)

numCriteria == Len(criteriaNames)
numAlternatives == Len(altNames)

\* a variant that removes the element before the one asked for (the last
\* one when asked for the first)
RemoveAt_offbyone(xs, index) ==
    LET at == IF index > 1 THEN index - 1 ELSE Len(xs)
    IN  [i \in 1..(Len(xs) - 1) |-> IF i < at THEN xs[i] ELSE xs[i + 1]]

\* xs.filter((_, i) => i !== index)
RemoveAt(xs, index) ==
    [i \in 1..(Len(xs) - 1) |-> IF i < index THEN xs[i] ELSE xs[i + 1]]

\* a variant that drops the row asked for but the last column
RemoveRowCol_lastcol(mat, index) ==
    LET rows == RemoveAt(mat, index)
    IN  [r \in 1..Len(rows) |-> SubSeq(rows[r], 1, Len(rows[r]) - 1)]

\* mat.filter((_, r) => r !== index).map(row => row.filter((_, c) => c !== index))
RemoveRowCol(mat, index) ==
    LET rows == RemoveAt(mat, index)
    IN  [r \in 1..Len(rows) |-> RemoveAt(rows[r], index)]

\* a variant that puts the new row and column first
AddRowCol_front(mat) ==
    LET size   == Len(mat)
        newRow == [c \in 1..(size + 1) |-> OneCell]
        newMat == [r \in 1..size |-> <<OneCell>> \o mat[r]]
    IN  <<newRow>> \o newMat

\* a variant that adds the column but not the row
AddRowCol_norow(mat) ==
    [r \in 1..Len(mat) |-> Append(mat[r], OneCell)]

\* a row and a column of { tri: T_ONE, isInverse: false, saatyValue: 1 } added
\* after the last ones
AddRowCol(mat) ==
    LET size   == Len(mat)
        newRow == [c \in 1..(size + 1) |-> OneCell]
        newMat == [r \in 1..size |-> Append(mat[r], OneCell)]
    IN  Append(newMat, newRow)

\* a variant of the cell edit that leaves the mirrored cell alone
SetPairwise_nomirror(mat, r, c, val, ts) ==
    LET termTri == getTriForValue(val, ts)
    IN  [mat EXCEPT ![r][c] = Cell(termTri, Less(val, Num(1)), val)]

\* a variant that flags the mirrored cell as inverse only when the entered
\* one is not
SetPairwise_flag(mat, r, c, val, ts) ==
    LET termTri == getTriForValue(val, ts)
        upper   == [mat EXCEPT ![r][c] = Cell(termTri, Less(val, Num(1)), val)]
    IN  [upper EXCEPT ![c][r] = Cell(fuzzyInverse(termTri), ~Less(val, Num(1)), Div1(val))]

\* newMat[r][c] = ...; newMat[c][r] = ...  (the second assignment wins when
\* r = c)
SetPairwise(mat, r, c, val, ts) ==
    LET termTri == getTriForValue(val, ts)
        upper   == [mat EXCEPT ![r][c] = Cell(termTri, Less(val, Num(1)), val)]
    IN  [upper EXCEPT ![c][r] = Cell(fuzzyInverse(termTri), TRUE, Div1(val))]

\* PairwiseMatrixInput: the values of the options of the Select
OptionValues(ts) ==
    {ts[i].value : i \in 1..Len(ts)}
    \cup {Div1(ts[i].value) : i \in {k \in 1..Len(ts) : Less(Num(1), ts[k].value)}}

\* the intensities the exploration selects
EditValues == {Num(2), Rat(1, 2)}

\* the texts the exploration types into the editor's fields
ValueTexts == {<<>>, <<"2">>, <<"1", "2">>}
ShortNameTexts == {<<" ">>, <<"W", "I", " ">>}
NameTexts == {<<"x">>}
TriTexts == {<<"0">>, <<"4", "9">>}

\* the names the exploration types into a name field
ItemNameTexts == {<<"X">>}

\* results: null (isNull) or the computed bundle
resultsGuard(cm, ams, nC, nA) ==
    \/ Len(cm) # nC
    \/ Len(ams) # nC
    \/ \E k \in 1..Len(ams) : Len(ams[k]) # nA

\* row.map(c => c.tri) of every row: what the computation reads of a matrix
MatrixTris(mat) == [r \in 1..Len(mat) |-> [c \in 1..Len(mat[r]) |-> mat[r][c].tri]]

\* the value returned when the guard fails
NullResults == [isNull |-> TRUE, of |-> <<>>]

\* the bundle computed from the tris of the matrices and the alternative
\* names; it is a function of these and is kept as them
ComputedResults(cm, ams, an) ==
    [isNull |-> FALSE,
     of |-> <<MatrixTris(cm), [k \in 1..Len(ams) |-> MatrixTris(ams[k])], an>>]

resultsMemo(cm, ams, cn, an) ==
    IF resultsGuard(cm, ams, Len(cn), Len(an))
    THEN NullResults
    ELSE ComputedResults(cm, ams, an)

\* src/src/App.tsx keeps the two counts as state of their own, without a
\* setter
numCriteriaApp == 5
numAlternativesApp == 3

\* src/src/App.tsx: the guard of its results useMemo reads the length of the
\* first alternative matrix only (ams is not empty wherever it is evaluated)
resultsGuardApp(cm, ams, nC, nA) ==
    \/ Len(cm) # nC
    \/ Len(ams) # nC
    \/ Len(ams[1]) # nA

resultsMemoApp(cm, ams, nC, nA, an) ==
    IF resultsGuardApp(cm, ams, nC, nA)
    THEN NullResults
    ELSE ComputedResults(cm, ams, an)

\* what the results useMemo returns once its guard has let it through
resultsScored(cm, ams, an, crit, altLocalWeights, scores) ==
    [isNull           |-> FALSE,
     of               |-> ComputedResults(cm, ams, an).of,
     critGeoMeans     |-> crit.geoMeans,
     sumCritGeoMeans  |-> crit.sumGeoMeans,
     invSumCrit       |-> crit.invSum,
     critFuzzyWeights |-> crit.fuzzyWeights,
     critNormWeights  |-> crit.normWeights,
     altLocalWeights  |-> altLocalWeights,
     globalScores     |-> scores,
     ranked           |-> ranked(scores, an)]

resultsWeighted(cm, ams, an, crit, altLocalWeights) ==
    resultsScored(cm, ams, an, crit, altLocalWeights,
                  globalScores(crit.normWeights, altLocalWeights, an))

\* weights[1] those of the criteria, weights[k + 1] those of the alternatives
\* under criterion k
resultsOfWeights(cm, ams, an, weights) ==
    resultsWeighted(cm, ams, an, weights[1],
                    Array([k \in 1..Len(ams) |-> weights[k + 1].normWeights]))

computeResults(cm, ams, an) ==
    resultsOfWeights(cm, ams, an,
                     Array([k \in 1..(Len(ams) + 1) |-> Weights((<<cm>> \o ams)[k])]))

Op(name, args) == [op |-> name, args |-> args]

-----------------------------------------------------------------------------
(* Initial state: the App component as mounted *)

Init ==
    /\ terms = DEFAULT_TERMS
    /\ criteriaNames = INITIAL_CRITERIA_NAMES
    /\ altNames = INITIAL_ALT_NAMES
    /\ critMatrix = getInitialCritMatrixState
    /\ altMatrices = getInitialAltMatricesState
    /\ modalOpen = FALSE
    /\ localTerms = DEFAULT_TERMS
    /\ errors = NoErrors
    /\ results = resultsMemo(getInitialCritMatrixState, getInitialAltMatricesState,
                             INITIAL_CRITERIA_NAMES, INITIAL_ALT_NAMES)
    /\ lastOp = Op("mount", <<>>)
    /\ steps = 0

\* the history of a handler run
Ran(name, args) == lastOp' = Op(name, args)

\* the results useMemo, re-evaluated in the render that follows the handler
Render ==
    results' = resultsMemo(critMatrix', altMatrices', criteriaNames', altNames')

EditorUnchanged == UNCHANGED <<modalOpen, localTerms, errors>>

-----------------------------------------------------------------------------
(* App: handlers.  The editor is a modal Dialog: while it is open the page  *)
(* behind it receives no event.                                             *)

handleAddCriterion ==
    /\ ~modalOpen
    /\ numCriteria < MaxCrit
    /\ Ran("handleAddCriterion", <<>>)
    /\ criteriaNames' = Append(criteriaNames, <<"Kryterii ", numCriteria + 1>>)
    /\ critMatrix' = AddRowCol(critMatrix)
    /\ altMatrices' = Append(altMatrices, getInitialMatrix(numAlternatives, terms, NoData))
    /\ UNCHANGED <<terms, altNames>>
    /\ EditorUnchanged
    /\ Render

\* a variant that drops the last alternative matrix instead of the one at
\* index
handleDeleteCriterion_lastmatrix(index) ==
    /\ ~modalOpen
    /\ Ran("handleDeleteCriterion", <<index>>)
    /\ IF numCriteria <= 2
       THEN UNCHANGED <<criteriaNames, critMatrix, altMatrices>>
       ELSE /\ criteriaNames' = RemoveAt(criteriaNames, index)
            /\ critMatrix' = RemoveRowCol(critMatrix, index)
            /\ altMatrices' = SubSeq(altMatrices, 1, Len(altMatrices) - 1)
    /\ UNCHANGED <<terms, altNames>>
    /\ EditorUnchanged
    /\ Render

handleDeleteCriterion(index) ==
    /\ ~modalOpen
    /\ Ran("handleDeleteCriterion", <<index>>)
    /\ IF numCriteria <= 2
       THEN UNCHANGED <<criteriaNames, critMatrix, altMatrices>>
       ELSE /\ criteriaNames' = RemoveAt(criteriaNames, index)
            /\ critMatrix' = RemoveRowCol(critMatrix, index)
            /\ altMatrices' = RemoveAt(altMatrices, index)
    /\ UNCHANGED <<terms, altNames>>
    /\ EditorUnchanged
    /\ Render

handleAddAlternative ==
    /\ ~modalOpen
    /\ numAlternatives < MaxAlt
    /\ Ran("handleAddAlternative", <<>>)
    /\ altNames' = Append(altNames, <<"Alternatyva ", numAlternatives + 1>>)
    /\ altMatrices' = [k \in 1..Len(altMatrices) |-> AddRowCol(altMatrices[k])]
    /\ UNCHANGED <<terms, criteriaNames, critMatrix>>
    /\ EditorUnchanged
    /\ Render

\* a variant that lets the last but one alternative go
handleDeleteAlternative_floorone(index) ==
    /\ ~modalOpen
    /\ Ran("handleDeleteAlternative", <<index>>)
    /\ IF numAlternatives <= 1
       THEN UNCHANGED <<altNames, altMatrices>>
       ELSE /\ altNames' = RemoveAt(altNames, index)
            /\ altMatrices' = [k \in 1..Len(altMatrices) |-> RemoveRowCol(altMatrices[k], index)]
    /\ UNCHANGED <<terms, criteriaNames, critMatrix>>
    /\ EditorUnchanged
    /\ Render

handleDeleteAlternative(index) ==
    /\ ~modalOpen
    /\ Ran("handleDeleteAlternative", <<index>>)
    /\ IF numAlternatives <= 2
       THEN UNCHANGED <<altNames, altMatrices>>
       ELSE /\ altNames' = RemoveAt(altNames, index)
            /\ altMatrices' = [k \in 1..Len(altMatrices) |-> RemoveRowCol(altMatrices[k], index)]
    /\ UNCHANGED <<terms, criteriaNames, critMatrix>>
    /\ EditorUnchanged
    /\ Render

\* the onChange of a criterion's name field
renameCriterion(idx, text) ==
    /\ ~modalOpen
    /\ Ran("renameCriterion", <<idx>>)
    /\ criteriaNames' = [criteriaNames EXCEPT ![idx] = text]
    /\ UNCHANGED <<terms, altNames, critMatrix, altMatrices>>
    /\ EditorUnchanged
    /\ Render

\* the onChange of an alternative's name field
renameAlternative(idx, text) ==
    /\ ~modalOpen
    /\ Ran("renameAlternative", <<idx>>)
    /\ altNames' = [altNames EXCEPT ![idx] = text]
    /\ UNCHANGED <<terms, criteriaNames, critMatrix, altMatrices>>
    /\ EditorUnchanged
    /\ Render

handleCritMatrixChange(r, c, val) ==
    /\ ~modalOpen
    /\ Ran("handleCritMatrixChange", <<r, c>>)
    /\ critMatrix' = SetPairwise(critMatrix, r, c, val, terms)
    /\ UNCHANGED <<terms, criteriaNames, altNames, altMatrices>>
    /\ EditorUnchanged
    /\ Render

\* a variant that enters the judgement in the matrix of every criterion
handleAltMatrixChange_everymatrix(critIdx, r, c, val) ==
    /\ ~modalOpen
    /\ Ran("handleAltMatrixChange", <<critIdx, r, c>>)
    /\ altMatrices' = [k \in 1..Len(altMatrices) |->
                          SetPairwise(altMatrices[k], r, c, val, terms)]
    /\ UNCHANGED <<terms, criteriaNames, altNames, critMatrix>>
    /\ EditorUnchanged
    /\ Render

handleAltMatrixChange(critIdx, r, c, val) ==
    /\ ~modalOpen
    /\ Ran("handleAltMatrixChange", <<critIdx, r, c>>)
    /\ altMatrices' = [altMatrices EXCEPT
                          ![critIdx] = SetPairwise(altMatrices[critIdx], r, c, val, terms)]
    /\ UNCHANGED <<terms, criteriaNames, altNames, critMatrix>>
    /\ EditorUnchanged
    /\ Render

\* a variant that leaves the term set as it is
handleReset_keepterms ==
    /\ ~modalOpen
    /\ Ran("handleReset", <<>>)
    /\ criteriaNames' = INITIAL_CRITERIA_NAMES
    /\ altNames' = INITIAL_ALT_NAMES
    /\ critMatrix' = getInitialCritMatrixState
    /\ altMatrices' = getInitialAltMatricesState
    /\ UNCHANGED terms
    /\ EditorUnchanged
    /\ Render

handleReset ==
    /\ ~modalOpen
    /\ Ran("handleReset", <<>>)
    /\ terms' = DEFAULT_TERMS
    /\ criteriaNames' = INITIAL_CRITERIA_NAMES
    /\ altNames' = INITIAL_ALT_NAMES
    /\ critMatrix' = getInitialCritMatrixState
    /\ altMatrices' = getInitialAltMatricesState
    /\ EditorUnchanged
    /\ Render

-----------------------------------------------------------------------------
(* LinguisticTermEditor: handlers *)

AppUnchanged == UNCHANGED <<criteriaNames, altNames, critMatrix, altMatrices>>

\* setModalOpen(true), then the editor's effects: localTerms is the accepted
\* set sorted by value, errors is validate(localTerms)
openEditor ==
    /\ ~modalOpen
    /\ Ran("openEditor", <<>>)
    /\ modalOpen' = TRUE
    /\ localTerms' = SortByValue(terms)
    /\ errors' = validate(localTerms')
    /\ UNCHANGED terms
    /\ AppUnchanged
    /\ Render

\* newTerm after handleChange(idx, field, val)
ChangedTerm(t, field, val) ==
    CASE field \in {"l", "m", "u"} ->
            [t EXCEPT !.tri = [t.tri EXCEPT ![field] = OrZero(parseFloat(val))]]
      [] field = "value" ->
            [t EXCEPT !.value = IF parseInt(val) = <<>> THEN Num(0) ELSE Num(parseInt(val)[1])]
      [] OTHER ->
            [t EXCEPT ![field] = val]

handleChange(idx, field, val) ==
    /\ modalOpen
    /\ Ran("handleChange", <<idx>>)
    /\ localTerms' = [localTerms EXCEPT ![idx] = ChangedTerm(localTerms[idx], field, val)]
    /\ errors' = validate(localTerms')
    /\ UNCHANGED <<terms, modalOpen>>
    /\ AppUnchanged
    /\ Render

\* a variant of Save that resolves the criteria matrix again from the new
\* term set
handleSave_reresolve ==
    /\ modalOpen
    /\ ~(Len(localTerms) < 2)
    /\ LET newErrors == validate(localTerms)
       IN  IF HasKeys(newErrors)
           THEN /\ Ran("handleSave", <<0>>)
                /\ errors' = newErrors
                /\ UNCHANGED <<terms, modalOpen, localTerms, critMatrix>>
           ELSE /\ Ran("handleSave", <<1>>)
                /\ terms' = localTerms
                /\ modalOpen' = FALSE
                /\ critMatrix' =
                      [r \in 1..Len(critMatrix) |-> [c \in 1..Len(critMatrix[r]) |->
                          [critMatrix[r][c] EXCEPT
                              !.tri = IF r < c
                                      THEN getTriForValue(critMatrix[r][c].saatyValue, localTerms)
                                      ELSE IF c < r
                                      THEN fuzzyInverse(getTriForValue(critMatrix[c][r].saatyValue, localTerms))
                                      ELSE T_ONE]]]
                /\ UNCHANGED <<localTerms, errors>>
    /\ UNCHANGED <<criteriaNames, altNames, altMatrices>>
    /\ Render

\* a variant of Save that does not validate
handleSave_novalidate ==
    /\ modalOpen
    /\ ~(Len(localTerms) < 2)
    /\ Ran("handleSave", <<1>>)
    /\ terms' = localTerms
    /\ modalOpen' = FALSE
    /\ UNCHANGED <<localTerms, errors>>
    /\ AppUnchanged
    /\ Render

\* Save is clicked.  The button is disabled while hasGlobalError, whose
\* errors part is state that an effect refreshes one render after an edit
\* (so the handler validates again) and whose length part is computed in
\* the render itself.
handleSave ==
    /\ modalOpen
    /\ ~(Len(localTerms) < 2)
    /\ LET newErrors == validate(localTerms)
       IN  IF HasKeys(newErrors)
           THEN /\ Ran("handleSave", <<0>>)
                /\ errors' = newErrors
                /\ UNCHANGED <<terms, modalOpen, localTerms>>
           ELSE /\ Ran("handleSave", <<1>>)
                /\ terms' = localTerms
                /\ modalOpen' = FALSE
                /\ UNCHANGED <<localTerms, errors>>
    /\ AppUnchanged
    /\ Render

\* Cancel, or a click outside the dialog: onClose
cancelEditor ==
    /\ modalOpen
    /\ Ran("cancelEditor", <<>>)
    /\ modalOpen' = FALSE
    /\ UNCHANGED <<terms, localTerms, errors>>
    /\ AppUnchanged
    /\ Render

addTerm ==
    /\ modalOpen
    /\ Len(localTerms) < MaxTerms
    /\ FreeIdIndexes(localTerms) # {}
    /\ Ran("addTerm", <<>>)
    /\ LET nextValue == IF Len(localTerms) > 0 THEN MaxValue(localTerms) + 1 ELSE 1
       IN  localTerms' = Append(localTerms,
               Term(randomUUID(localTerms),
                    <<"New Term ", nextValue>>,
                    <<"T">> \o IntChars(nextValue),
                    Num(nextValue),
                    Tri(Num(nextValue), Num(nextValue + 1), Num(nextValue + 2))))
    /\ errors' = validate(localTerms')
    /\ UNCHANGED <<terms, modalOpen>>
    /\ AppUnchanged
    /\ Render

\* the delete button of a row is disabled while localTerms.length <= 2
deleteTerm(id) ==
    /\ modalOpen
    /\ ~(Len(localTerms) <= 2)
    /\ Ran("deleteTerm", <<>>)
    /\ localTerms' = SelectSeq(localTerms, LAMBDA t : t.id # id)
    /\ errors' = validate(localTerms')
    /\ UNCHANGED <<terms, modalOpen>>
    /\ AppUnchanged
    /\ Render

-----------------------------------------------------------------------------
(* The session: every handler, on the inputs of the exploration *)

\* the intensities selected: options of the Select that are in EditValues
Intensities == OptionValues(terms) \cap EditValues

\* the upper-triangle cells edited in a matrix of size n: the first and the
\* last pair of neighbours
EditCells(n) == {<<1, 2>>, <<n - 1, n>>}

\* the rows acted on in a list of n rows: the first and the last
EndRows(n) == {1, n}

\* the rows of the editor that handleChange is run on: the first two
ChangeRows == {1, 2} \cap (1..Len(localTerms))

\* a handler run that counts towards the n runs explored
Within(n) == steps < n /\ steps' = steps + 1

\* a handler run that does not count: the handler bounds itself
Uncounted == UNCHANGED steps

Next ==
    \/ Within(MaxSteps) /\ handleAddCriterion
    \/ Within(MaxSteps) /\ \E index \in 1..numCriteria : handleDeleteCriterion(index)
    \/ Within(MaxSteps) /\ handleAddAlternative
    \/ Within(MaxSteps) /\ \E index \in 1..numAlternatives : handleDeleteAlternative(index)
    \/ Within(MaxSteps) /\ \E idx \in EndRows(numCriteria), text \in ItemNameTexts :
          renameCriterion(idx, text)
    \/ Within(MaxSteps) /\ \E idx \in EndRows(numAlternatives), text \in ItemNameTexts :
          renameAlternative(idx, text)
    \/ Within(MaxSteps) /\ \E cell \in EditCells(Len(critMatrix)), val \in Intensities :
          handleCritMatrixChange(cell[1], cell[2], val)
    \/ Within(MaxSteps) /\ \E k \in EndRows(Len(altMatrices)) :
          \E cell \in EditCells(Len(altMatrices[k])), val \in Intensities :
              handleAltMatrixChange(k, cell[1], cell[2], val)
    \/ Within(MaxSteps) /\ handleReset
    \/ Within(MaxSteps) /\ openEditor
    \/ Within(MaxSteps) /\ \E idx \in ChangeRows, val \in ValueTexts :
          handleChange(idx, "value", val)
    \/ Within(MaxSteps) /\ \E idx \in ChangeRows, val \in ShortNameTexts :
          handleChange(idx, "shortName", val)
    \/ Within(MaxSteps) /\ \E idx \in ChangeRows, val \in NameTexts :
          handleChange(idx, "name", val)
    \/ Within(MaxSteps) /\ \E idx \in ChangeRows, f \in {"l", "m", "u"}, val \in TriTexts :
          handleChange(idx, f, val)
    \/ Within(MaxSteps) /\ handleSave
    \/ Within(MaxSteps) /\ cancelEditor
    \/ Within(MaxSteps) /\ addTerm
    \/ Within(MaxSteps) /\ \E i \in EndRows(Len(localTerms)) : deleteTerm(localTerms[i].id)

Spec == Init /\ [][Next]_vars

\* The term editor alone, with runs of deleteTerm down to the two-term floor
NextEditor ==
    \/ Within(MaxEditorSteps) /\ openEditor
    \/ Within(MaxEditorSteps) /\ \E idx \in ChangeRows, val \in ValueTexts :
          handleChange(idx, "value", val)
    \/ Within(MaxEditorSteps) /\ \E idx \in ChangeRows, val \in ShortNameTexts :
          handleChange(idx, "shortName", val)
    \/ Within(MaxEditorSteps) /\ \E idx \in ChangeRows, val \in NameTexts :
          handleChange(idx, "name", val)
    \/ Within(MaxEditorSteps) /\ \E idx \in ChangeRows, f \in {"l", "m", "u"}, val \in TriTexts :
          handleChange(idx, f, val)
    \/ Within(MaxEditorSteps) /\ handleSave
    \/ Within(MaxEditorSteps) /\ cancelEditor
    \/ Within(MaxEditorSteps) /\ addTerm
    \/ Uncounted /\ \E i \in EndRows(Len(localTerms)) : deleteTerm(localTerms[i].id)
    \/ Within(MaxEditorSteps) /\ handleReset

SpecEditor == Init /\ [][NextEditor]_vars

-----------------------------------------------------------------------------
(* The results useMemo on arbitrary component state: the name lists, the    *)
(* criteria matrix and the alternative matrices are drawn independently,    *)
(* so their dimensions need not agree.                                      *)

GuardCounts == {4, 5}
GuardSizes == {2, 3}

Identity(n) == getInitialMatrix(n, DEFAULT_TERMS, NoData)

\* the sequences of n matrices with sizes in GuardSizes
GuardMatrices(n) == {[k \in 1..n |-> Identity(f[k])] : f \in [1..n -> GuardSizes]}

InitGuard ==
    /\ terms = DEFAULT_TERMS
    /\ criteriaNames \in {SubSeq(INITIAL_CRITERIA_NAMES, 1, n) : n \in GuardCounts}
    /\ altNames \in {SubSeq(INITIAL_ALT_NAMES, 1, n) : n \in GuardSizes}
    /\ critMatrix \in {Identity(n) : n \in GuardCounts}
    /\ altMatrices \in UNION {GuardMatrices(n) : n \in GuardCounts}
    /\ modalOpen = FALSE
    /\ localTerms = DEFAULT_TERMS
    /\ errors = NoErrors
    /\ results = NullResults
    /\ lastOp = Op("none", <<>>)
    /\ steps = 0

\* the useMemo of src/unnamed/part_000 evaluated on the state
renderResults ==
    /\ lastOp.op = "none"
    /\ Ran("results", <<>>)
    /\ results' = resultsMemo(critMatrix, altMatrices, criteriaNames, altNames)
    /\ UNCHANGED <<terms, criteriaNames, altNames, critMatrix, altMatrices,
                   modalOpen, localTerms, errors, steps>>

\* the useMemo of src/src/App.tsx evaluated on the state
renderResultsApp ==
    /\ lastOp.op = "none"
    /\ Ran("resultsApp", <<>>)
    /\ results' = resultsMemoApp(critMatrix, altMatrices, numCriteriaApp, numAlternativesApp, altNames)
    /\ UNCHANGED <<terms, criteriaNames, altNames, critMatrix, altMatrices,
                   modalOpen, localTerms, errors, steps>>

NextGuard ==
    \/ renderResults
    \/ renderResultsApp

SpecGuard == InitGuard /\ [][NextGuard]_vars

-----------------------------------------------------------------------------
(* The computation of the results on its own: the results useMemo run on   *)
(* sessions of 1 to MaxResultCrit criteria and 2 or 3 alternatives whose   *)
(* matrices have at most two judgements entered.                           *)

\* the largest number of criteria of those sessions
MaxResultCrit == 6
ResultAlts == {2, 3}

\* the judgements entered
ResultIntensities == {Num(2), Num(3), Rat(1, 3)}

\* DEFAULT_TERMS after the editor saved l = -1 for the term of value 2
TermsWithNegative ==
    [DEFAULT_TERMS EXCEPT ![2] = [@ EXCEPT !.tri = Tri(Num(-1), Num(2), Num(3))]]

\* DEFAULT_TERMS after the editor saved (0, 0, 0) for the term of value 2
TermsWithZero ==
    [DEFAULT_TERMS EXCEPT ![2] = [@ EXCEPT !.tri = Tri(Num(0), Num(0), Num(0))]]

\* term sets that handleSave accepts
ResultTermSets ==
    {ts \in {DEFAULT_TERMS, TermsWithNegative, TermsWithZero} : ~HasKeys(validate(ts))}

\* n >= 2: the n x n matrices with the judgement of cell (0, 1) entered
Judged(n, ts) == {SetPairwise(Identity(n), 1, 2, v, ts) : v \in ResultIntensities}

\* the criteria matrices: nothing entered, or one judgement among up to 3
ResultCritMatrices(n, ts) ==
    {Identity(n)} \cup (IF n \in {2, 3} THEN Judged(n, ts) ELSE {})

\* the alternative matrices: only the first has judgements entered, and
\* among 3 alternatives either the first is preferred to the second or the
\* other two are equally preferred to the first
ResultAltMatrices(nC, nA, ts) ==
    {[k \in 1..nC |-> IF k = 1 THEN first ELSE Identity(nA)] :
        first \in {Identity(nA)} \cup
                  (IF nA = 2 THEN Judged(nA, ts)
                   ELSE {SetPairwise(Identity(nA), 1, 2, Num(3), ts),
                         SetPairwise(SetPairwise(Identity(nA), 1, 2, Rat(1, 3), ts),
                                     1, 3, Rat(1, 3), ts)})}

InitResults ==
    /\ terms \in ResultTermSets
    /\ criteriaNames \in {[k \in 1..n |-> <<"C", k>>] : n \in 1..MaxResultCrit}
    /\ altNames \in {SubSeq(INITIAL_ALT_NAMES, 1, n) : n \in ResultAlts}
    /\ critMatrix \in ResultCritMatrices(Len(criteriaNames), terms)
    /\ altMatrices \in ResultAltMatrices(Len(criteriaNames), Len(altNames), terms)
    /\ modalOpen = FALSE
    /\ localTerms = terms
    /\ errors = NoErrors
    /\ results = NullResults
    /\ lastOp = Op("none", <<>>)
    /\ steps = 0

\* the render in which the useMemo computes its value
renderComputed ==
    /\ lastOp.op = "none"
    /\ Ran("results", <<>>)
    /\ results' = IF resultsGuard(critMatrix, altMatrices, numCriteria, numAlternatives)
                  THEN NullResults
                  ELSE computeResults(critMatrix, altMatrices, altNames)
    /\ UNCHANGED <<terms, criteriaNames, altNames, critMatrix, altMatrices,
                   modalOpen, localTerms, errors, steps>>

NextResults == renderComputed

SpecResults == InitResults /\ [][NextResults]_vars

-----------------------------------------------------------------------------
(* fuzzyInverse on its own: a session of two criteria whose term of value  *)
(* 2 has a TFN of positive integers, in which the judgement of cell (0, 1) *)
(* is entered once.  Entering 1/2 stores the inverse of the term's TFN in  *)
(* cell (0, 1) and the inverse of that in cell (1, 0).                     *)

\* the largest component of the TFNs inverted
MaxComponent == 99
InverseLows == {1, 2, 49}

PositiveTFNs ==
    {Tri(Num(l), Num(m), Num(u)) :
        l \in InverseLows, m \in 1..MaxComponent, u \in 1..MaxComponent}

InverseTermSets ==
    {[DEFAULT_TERMS EXCEPT ![2] = [@ EXCEPT !.tri = t]] :
        t \in {x \in PositiveTFNs :
                  x.m[1] \in {x.l[1], x.l[1] + 1} /\ x.m[1] <= x.u[1]}}

InitInverse ==
    /\ terms \in {ts \in InverseTermSets : ~HasKeys(validate(ts))}
    /\ criteriaNames = SubSeq(INITIAL_CRITERIA_NAMES, 1, 2)
    /\ altNames = SubSeq(INITIAL_ALT_NAMES, 1, 2)
    /\ critMatrix = Identity(2)
    /\ altMatrices = <<Identity(2), Identity(2)>>
    /\ modalOpen = FALSE
    /\ localTerms = terms
    /\ errors = NoErrors
    /\ results = resultsMemo(critMatrix, altMatrices, criteriaNames, altNames)
    /\ lastOp = Op("none", <<>>)
    /\ steps = 0

NextInverse ==
    Within(1) /\ \E val \in {Num(2), Rat(1, 2)} : handleCritMatrixChange(1, 2, val)

SpecInverse == InitInverse /\ [][NextInverse]_vars

-----------------------------------------------------------------------------
(* getTriForValue on its own: a session of three criteria and three        *)
(* alternatives in which one judgement is entered, of an intensity that    *)
(* need not be one the Select offers.                                      *)

\* the intensities entered: whole and not, with and without a term
IntensityValues ==
    {Num(1), Num(2), Num(3), Rat(3, 2), Rat(5, 2), Num(10),
     Rat(1, 2), Rat(1, 3), Rat(2, 5), Rat(2, 3), Rat(3, 4), Rat(1, 10)}

\* the TFNs the editor saved for the term of value 2, with components that
\* are 0 and components next to 0: the l, m and u fields take any number,
\* 5e-324 = 2^-1074 and 2.2250738585072014e-308 = 2^-1022 among them
SmallTris ==
    {Tri(Num(0), Num(0), Num(0)),
     Tri(Num(0), Num(2), Num(3)),
     Tri(Pow2Num(1, MinExponent), Num(2), Num(3)),
     Tri(Pow2Num(1, -1022), Num(2), Num(3)),
     Tri(Pow2Num(-1, MinExponent), Num(0), Num(3))}

\* the term sets: the default one, its first two terms, the default one
\* with its first term of TFN (1, 2, 2), the default one with the value
\* 2 held by two terms, and the default one with a small TFN for the term of
\* value 2
IntensityTermSets ==
    {DEFAULT_TERMS,
     SubSeq(DEFAULT_TERMS, 1, 2),
     [DEFAULT_TERMS EXCEPT ![1] = [@ EXCEPT !.tri = Tri(Num(1), Num(2), Num(2))]],
     [DEFAULT_TERMS EXCEPT ![3] = [@ EXCEPT !.value = Num(2)]]}
    \cup {[DEFAULT_TERMS EXCEPT ![2] = [@ EXCEPT !.tri = tri]] : tri \in SmallTris}

\* the cells above the diagonal of a matrix of size n
UpperCells(n) == {cell \in (1..n) \X (1..n) : cell[1] < cell[2]}

InitIntensity ==
    /\ terms \in IntensityTermSets
    /\ criteriaNames = SubSeq(INITIAL_CRITERIA_NAMES, 1, 3)
    /\ altNames = INITIAL_ALT_NAMES
    /\ critMatrix = Identity(3)
    /\ altMatrices = <<Identity(3), Identity(3), Identity(3)>>
    /\ modalOpen = FALSE
    /\ localTerms = terms
    /\ errors = NoErrors
    /\ results = resultsMemo(critMatrix, altMatrices, criteriaNames, altNames)
    /\ lastOp = Op("none", <<>>)
    /\ steps = 0

NextIntensity ==
    \/ Within(1) /\ \E cell \in UpperCells(Len(critMatrix)), val \in IntensityValues :
          handleCritMatrixChange(cell[1], cell[2], val)
    \/ Within(1) /\ \E k \in EndRows(Len(altMatrices)) :
          \E cell \in UpperCells(Len(altMatrices[k])), val \in IntensityValues :
              handleAltMatrixChange(k, cell[1], cell[2], val)

SpecIntensity == InitIntensity /\ [][NextIntensity]_vars

-----------------------------------------------------------------------------
(* The Select of a cell on its own: a session of three criteria and three  *)
(* alternatives in which one judgement is entered, of an intensity among   *)
(* the options, under term sets that handleSave accepted.                  *)

\* the term sets saved: the default one, its first three terms, the default
\* one with the value of its second term cleared (handleChange stores 0 for
\* a text that parseInt does not read) or set to 12, and, were validate to
\* let it through, the default one with the value 2 held by two terms;
\* each in the order of the editor's rows, which handleSave keeps
OfferedTermSets ==
    {ts \in {DEFAULT_TERMS,
             SubSeq(DEFAULT_TERMS, 1, 3),
             [DEFAULT_TERMS EXCEPT ![2] = [@ EXCEPT !.value = Num(0)]],
             [DEFAULT_TERMS EXCEPT ![2] = [@ EXCEPT !.value = Num(12)]],
             [DEFAULT_TERMS EXCEPT ![3] = [@ EXCEPT !.value = Num(2)]]} :
        ~HasKeys(validate(ts))}

InitOffered ==
    /\ terms \in OfferedTermSets
    /\ criteriaNames = SubSeq(INITIAL_CRITERIA_NAMES, 1, 3)
    /\ altNames = INITIAL_ALT_NAMES
    /\ critMatrix = Identity(3)
    /\ altMatrices = <<Identity(3), Identity(3), Identity(3)>>
    /\ modalOpen = FALSE
    /\ localTerms = terms
    /\ errors = NoErrors
    /\ results = resultsMemo(critMatrix, altMatrices, criteriaNames, altNames)
    /\ lastOp = Op("none", <<>>)
    /\ steps = 0

NextOffered ==
    \/ Within(1) /\ \E cell \in UpperCells(Len(critMatrix)), val \in OptionValues(terms) :
          handleCritMatrixChange(cell[1], cell[2], val)
    \/ Within(1) /\ \E k \in EndRows(Len(altMatrices)) :
          \E cell \in UpperCells(Len(altMatrices[k])), val \in OptionValues(terms) :
              handleAltMatrixChange(k, cell[1], cell[2], val)

SpecOffered == InitOffered /\ [][NextOffered]_vars

-----------------------------------------------------------------------------
(* Properties of the matrices *)

\* the criteria matrix followed by the alternative matrices
AllMatrices == <<critMatrix>> \o altMatrices

C2_DiagonalInvariant ==
    \A k \in 1..Len(AllMatrices) :
        \A i \in 1..Len(AllMatrices[k]) : AllMatrices[k][i][i].tri = T_ONE

\* a criterion other than the last was deleted after a criterion was added
C2_Witness ==
    /\ lastOp.op = "handleDeleteCriterion"
    /\ lastOp.args[1] < 5
    /\ numCriteria = 5
    /\ criteriaNames[5] = <<"Kryterii ", 6>>

\* C3: in every reachable state the criteria matrix is nC x nC, there are nC
\* alternative matrices and each of them is nA x nA, nC and nA being the
\* numbers of criterion names and of alternative names
C3_DimensionInvariant ==
    /\ Len(critMatrix) = numCriteria
    /\ \A r \in 1..Len(critMatrix) : Len(critMatrix[r]) = numCriteria
    /\ Len(altMatrices) = numCriteria
    /\ \A k \in 1..Len(altMatrices) :
        /\ Len(altMatrices[k]) = numAlternatives
        /\ \A r \in 1..Len(altMatrices[k]) : Len(altMatrices[k][r]) = numAlternatives

\* both item sets have changed size: a criterion added, an alternative gone
C3_Witness ==
    /\ numCriteria = 6
    /\ numAlternatives = 2
    /\ lastOp.op \in {"handleAddCriterion", "handleDeleteAlternative"}

-----------------------------------------------------------------------------
(* Properties of the add and delete handlers *)

\* new is old with one more row and column after the last, every old cell
\* kept and every cell of the new row and column with tri (1,1,1)
Grown(old, new) ==
    LET n == Len(old)
    IN  /\ Len(new) = n + 1
        /\ \A i \in 1..(n + 1) : Len(new[i]) = n + 1
        /\ \A i, j \in 1..n : new[i][j] = old[i][j]
        /\ \A i \in 1..(n + 1) : new[i][n + 1].tri = T_ONE /\ new[n + 1][i].tri = T_ONE

\* C4: add criterion grows the criteria matrix, and add alternative grows
\* every alternative matrix, from size n to n+1 leaving every old cell
\* unchanged and giving every cell of the new row and column tri (1,1,1)
C4_GrowthPreservesCells ==
    [][ /\ lastOp'.op = "handleAddCriterion" => Grown(critMatrix, critMatrix')
        /\ lastOp'.op = "handleAddAlternative" =>
              /\ Len(altMatrices') = Len(altMatrices)
              /\ \A k \in 1..Len(altMatrices) : Grown(altMatrices[k], altMatrices'[k])
      ]_vars

\* an alternative was added to matrices one of which had been edited
C4_Witness ==
    /\ lastOp.op = "handleAddAlternative"
    /\ numAlternatives = 4
    /\ altMatrices[1][1][2].saatyValue = Rat(1, 2)
    /\ altMatrices[1][4][4] = OneCell

\* the old index of the item at index i after item k was removed
Shift(i, k) == IF i < k THEN i ELSE i + 1

\* new is the matrix old without the row and the column of item k
DeletedFromMatrix(old, new, k) ==
    /\ Len(new) = Len(old) - 1
    /\ \A i \in 1..Len(new) :
        /\ Len(new[i]) = Len(old) - 1
        /\ \A j \in 1..Len(new) : new[i][j] = old[Shift(i, k)][Shift(j, k)]

\* new is the list old without item k
DeletedFromList(old, new, k) ==
    /\ Len(new) = Len(old) - 1
    /\ \A i \in 1..Len(new) : new[i] = old[Shift(i, k)]

\* C5: deleting item k when more than 2 items exist yields matrices of size
\* n-1 whose cell [i][j] is the old cell [i'][j'], i' = i if i < k else i+1
\* (j' likewise): the criteria matrix on delete criterion, every alternative
\* matrix on delete alternative, and the name list shifted the same way
C5_DeleteShiftsIndices ==
    [][ /\ (lastOp'.op = "handleDeleteCriterion" /\ numCriteria > 2) =>
              /\ DeletedFromMatrix(critMatrix, critMatrix', lastOp'.args[1])
              /\ DeletedFromList(criteriaNames, criteriaNames', lastOp'.args[1])
        /\ (lastOp'.op = "handleDeleteAlternative" /\ numAlternatives > 2) =>
              /\ Len(altMatrices') = Len(altMatrices)
              /\ \A c \in 1..Len(altMatrices) :
                    DeletedFromMatrix(altMatrices[c], altMatrices'[c], lastOp'.args[1])
              /\ DeletedFromList(altNames, altNames', lastOp'.args[1])
      ]_vars

\* the second of four alternatives was deleted, the fourth having been added
C5_Witness ==
    /\ lastOp = Op("handleDeleteAlternative", <<2>>)
    /\ numAlternatives = 3
    /\ altNames[3] = <<"Alternatyva ", 4>>

\* C6: add criterion appends one alternative matrix, nA x nA with every tri
\* (1,1,1), at the index of the new criterion and leaves the other
\* alternative matrices and the alternative names unchanged; add alternative
\* resizes all nC alternative matrices in the one step and leaves the
\* criteria matrix and the criterion names unchanged
C6_AddInLockstep ==
    [][ /\ lastOp'.op = "handleAddCriterion" =>
              /\ Len(altMatrices') = Len(altMatrices) + 1
              /\ Len(altMatrices') = Len(criteriaNames')
              /\ \A k \in 1..Len(altMatrices) : altMatrices'[k] = altMatrices[k]
              /\ LET new == altMatrices'[Len(altMatrices')]
                 IN  /\ Len(new) = numAlternatives
                     /\ \A r \in 1..Len(new) :
                            /\ Len(new[r]) = numAlternatives
                            /\ \A c \in 1..Len(new[r]) : new[r][c].tri = T_ONE
              /\ altNames' = altNames
        /\ lastOp'.op = "handleAddAlternative" =>
              /\ Len(altMatrices') = numCriteria
              /\ \A k \in 1..Len(altMatrices') :
                    Len(altMatrices'[k]) = Len(altMatrices[k]) + 1
              /\ critMatrix' = critMatrix
              /\ criteriaNames' = criteriaNames
      ]_vars

\* a criterion was added while there were four alternatives
C6_Witness ==
    /\ lastOp.op = "handleAddCriterion"
    /\ numAlternatives = 4
    /\ Len(altMatrices[numCriteria]) = 4

\* C7: delete criterion k (when more than 2 exist) removes the name, the
\* criteria-matrix row and column and the alternative matrix of criterion k,
\* and every other criterion keeps its name and its alternative matrix at
\* its shifted index; add criterion keeps every name and alternative matrix
\* at its index; so name and alternative matrix stay paired
C7_DeleteKeepsPairing ==
    [][ /\ (lastOp'.op = "handleDeleteCriterion" /\ numCriteria > 2) =>
              /\ DeletedFromList(criteriaNames, criteriaNames', lastOp'.args[1])
              /\ DeletedFromList(altMatrices, altMatrices', lastOp'.args[1])
              /\ DeletedFromMatrix(critMatrix, critMatrix', lastOp'.args[1])
        /\ lastOp'.op = "handleAddCriterion" =>
              \A c \in 1..numCriteria :
                  /\ criteriaNames'[c] = criteriaNames[c]
                  /\ altMatrices'[c] = altMatrices[c]
      ]_vars

\* the first criterion was deleted: the name and the alternative matrix now
\* first are the ones the second criterion had
C7_Witness ==
    /\ lastOp = Op("handleDeleteCriterion", <<1>>)
    /\ numCriteria = 4
    /\ criteriaNames[1] = INITIAL_CRITERIA_NAMES[2]
    /\ altMatrices[1] = getInitialAltMatricesState[2]

-----------------------------------------------------------------------------
(* Properties of the results guard *)

\* some dimension disagrees with the counts nC and nA
DimensionMismatch(nC, nA) ==
    \/ Len(critMatrix) # nC
    \/ Len(altMatrices) # nC
    \/ \E k \in 1..Len(altMatrices) : Len(altMatrices[k]) # nA

\* C8: on any state, the results computation returns null exactly when the
\* criteria matrix size differs from nC, or the number of alternative
\* matrices differs from nC, or any alternative matrix has a size other than
\* nA; this is stated of the useMemo of both sources
C8_NullOnAnyMismatch ==
    /\ lastOp.op = "results" =>
          (results.isNull <=> DimensionMismatch(numCriteria, numAlternatives))
    /\ lastOp.op = "resultsApp" =>
          (results.isNull <=> DimensionMismatch(numCriteriaApp, numAlternativesApp))

-----------------------------------------------------------------------------
(* Properties of the term editor *)

\* the invariants of a term set
TermSetValid(ts) ==
    /\ Len(ts) >= 2
    /\ \A i, j \in 1..Len(ts) : i # j => ts[i].value # ts[j].value
    /\ \A i, j \in 1..Len(ts) : i # j => ts[i].shortName # ts[j].shortName
    /\ \A i \in 1..Len(ts) :
        /\ ts[i].shortName # <<>>
        /\ ~Less(ts[i].tri.m, ts[i].tri.l)
        /\ ~Less(ts[i].tri.u, ts[i].tri.m)

\* C9: in every state reachable by term-editor operations and reset, the
\* accepted term set has at least 2 terms, pairwise distinct values,
\* pairwise distinct non-empty shortNames and l <= m <= u for every term
C9_AcceptedTermSetValid == TermSetValid(terms)

\* a save was accepted that changed the accepted term set
C9_Witness ==
    /\ lastOp = Op("handleSave", <<1>>)
    /\ terms # DEFAULT_TERMS

\* C10: a save attempt on a term set with a validation error leaves the
\* accepted term set, the matrices and the names unchanged and the editor
\* open; editing in the editor and cancelling leave the accepted term set
\* unchanged
C10_RejectedSaveChangesNothing ==
    [][ /\ (lastOp'.op = "handleSave" /\ HasKeys(validate(localTerms))) =>
              /\ UNCHANGED <<terms, criteriaNames, altNames, critMatrix, altMatrices>>
              /\ modalOpen /\ modalOpen'
        /\ lastOp'.op \in {"handleChange", "addTerm", "deleteTerm", "cancelEditor"} =>
              terms' = terms
      ]_vars

\* a save was refused while the edited list differed from the accepted one
C10_Witness ==
    /\ lastOp = Op("handleSave", <<0>>)
    /\ modalOpen
    /\ HasKeys(errors)
    /\ localTerms # terms

-----------------------------------------------------------------------------
(* Properties of the stored cells *)

\* C11: an accepted save of the term set leaves the criteria matrix and
\* every alternative matrix unchanged, cells keeping the tri they were
\* entered with, and so leaves the computed results unchanged
C11_SaveKeepsMatrices ==
    [][ lastOp' = Op("handleSave", <<1>>) =>
            /\ critMatrix' = critMatrix
            /\ altMatrices' = altMatrices
            /\ results' = results
      ]_vars

\* a save was accepted that redefined the term of intensity 2, whose
\* inverse cell (1,5) of the criteria matrix was entered with and still holds
C11_Witness ==
    /\ lastOp = Op("handleSave", <<1>>)
    /\ ~results.isNull
    /\ numCriteria = 5
    /\ critMatrix[1][5].saatyValue = Rat(1, 2)
    /\ critMatrix[1][5].tri = Tri(Rat(1, 3), Rat(1, 2), Num(1))
    /\ getTriForValue(Rat(1, 2), terms) # Tri(Rat(1, 3), Rat(1, 2), Num(1))

\* l <= m <= u
Ordered(t) == ~Less(t.m, t.l) /\ ~Less(t.u, t.m)

\* C12: in every reachable state the tri of every cell of the criteria
\* matrix and of every alternative matrix satisfies l <= m <= u
C12_CellsOrdered ==
    \A k \in 1..Len(AllMatrices) :
        \A i, j \in 1..Len(AllMatrices[k]) : Ordered(AllMatrices[k][i][j].tri)

\* C13: every term of the accepted term set has a value that is an integer
\* and at least 1
C13_ValuesPositiveIntegers ==
    \A i \in 1..Len(terms) :
        /\ Len(terms[i].value) = 2
        /\ terms[i].value[2] = 1
        /\ terms[i].value[1] >= 1

-----------------------------------------------------------------------------
(* Properties of the change of a judgement *)

\* mat2 is mat after the intensity val was entered at cell (r, c)
Entered(mat2, r, c, val, ts) ==
    /\ mat2[r][c] = [tri |-> getTriForValue(val, ts),
                     isInverse |-> Less(val, Num(1)),
                     saatyValue |-> val]
    /\ mat2[c][r] = [tri |-> fuzzyInverse(getTriForValue(val, ts)),
                     isInverse |-> TRUE,
                     saatyValue |-> Div1(val)]

\* C20: a change of the judgement at cell (i, j), i # j, of the criteria
\* matrix or of an alternative matrix stores, in one update, the TFN of the
\* intensity under the current terms, the flag intensity < 1 and the
\* intensity in cell (i, j), and the inverse of that TFN, the flag true and
\* 1 / intensity in cell (j, i)
C20_ChangeSetsBothCells ==
    [][ /\ lastOp'.op = "handleCritMatrixChange" =>
               LET r == lastOp'.args[1]
                   c == lastOp'.args[2]
               IN  r # c =>
                       \E val \in OptionValues(terms) :
                           Entered(critMatrix', r, c, val, terms)
        /\ lastOp'.op = "handleAltMatrixChange" =>
               LET k == lastOp'.args[1]
                   r == lastOp'.args[2]
                   c == lastOp'.args[3]
               IN  r # c =>
                       \E val \in OptionValues(terms) :
                           Entered(altMatrices'[k], r, c, val, terms)
      ]_vars

\* 1/2 entered at cell (0, 1) of the first alternative matrix
C20_Witness ==
    /\ lastOp = Op("handleAltMatrixChange", <<1, 1, 2>>)
    /\ altMatrices[1][1][2].saatyValue = Rat(1, 2)
    /\ altMatrices[1][1][2].isInverse
    /\ altMatrices[1][2][1].saatyValue = Num(2)
    /\ altMatrices[1][2][1].isInverse

-----------------------------------------------------------------------------
(* Properties of the computed results *)

Computed == ~results.isNull /\ lastOp = Op("results", <<>>)

\* the sum of critW[c] * altW[c][a] over the criteria c, taken in order
RECURSIVE WeightedSum(_, _, _)
WeightedSum(critW, altW, a) ==
    IF critW = <<>> THEN DZero
    ELSE DAdd(WeightedSum(SubSeq(critW, 1, Len(critW) - 1),
                          SubSeq(altW, 1, Len(altW) - 1), a),
              DMul(critW[Len(critW)], altW[Len(altW)][a]))

\* C14: every score is the sum over the criteria of the products of the
\* criterion's normalised weight and the alternative's local weight, and
\* there are as many scores as alternatives
C14_ScoreIsWeightedSum ==
    Computed =>
        /\ Len(results.globalScores) = numAlternatives
        /\ \A a \in 1..numAlternatives :
               results.globalScores[a] =
                   WeightedSum(results.critNormWeights, results.altLocalWeights, a)

NaNAsZero(w) == IF DIsNaN(w) THEN DZero ELSE w

\* what the scores are in every state: that sum with a weight that is NaN
\* counted as 0
ScoreIsWeightedSumOfNumbers ==
    Computed =>
        /\ Len(results.globalScores) = numAlternatives
        /\ \A a \in 1..numAlternatives :
               results.globalScores[a] =
                   WeightedSum([c \in 1..numCriteria |-> NaNAsZero(results.critNormWeights[c])],
                               [c \in 1..numCriteria |->
                                   [b \in 1..numAlternatives |->
                                       NaNAsZero(results.altLocalWeights[c][b])]], a)

\* scores of 0 computed from weights that are NaN
C14_Witness ==
    /\ Computed
    /\ DIsNaN(results.critNormWeights[1])
    /\ \A a \in 1..numAlternatives : results.globalScores[a] = DZero

\* C15: the ranking lists every alternative once, with its own name and
\* score, by falling score, alternatives of equal score in the order of
\* altNames
C15_RankingIsStableSortedPermutation ==
    Computed =>
        LET rk == results.ranked
        IN  /\ Len(rk) = numAlternatives
            /\ {rk[i].idx : i \in 1..Len(rk)} = 1..numAlternatives
            /\ \A i \in 1..Len(rk) :
                   /\ rk[i].name = altNames[rk[i].idx]
                   /\ rk[i].score = results.globalScores[rk[i].idx]
            /\ \A i, j \in 1..Len(rk) :
                   i < j =>
                       /\ ~DLess(rk[i].score, rk[j].score)
                       /\ rk[i].score = rk[j].score => rk[i].idx < rk[j].idx

\* three alternatives of which the second and the third score the same and
\* more than the first
C15_Witness ==
    /\ Computed
    /\ numAlternatives = 3
    /\ [i \in 1..3 |-> results.ranked[i].idx] = <<2, 3, 1>>
    /\ results.globalScores[2] = results.globalScores[3]
    /\ DLess(results.globalScores[1], results.globalScores[2])

\* 1e-9
Tolerance == DDiv(DOne, DOfInt(1000000000))

\* |x - y| <= tol
Near(x, y, tol) ==
    LET d == DSub(x, y)
    IN  DIsFinite(d) /\ ~DLess(tol, IF d.s < 0 THEN DNeg(d) ELSE d)

\* no zero denominator in the weights of mat: no component of the sum of
\* the geometric means is zero, and the sum of the centres of area is not
NoZeroDenominator(mat) ==
    LET w == Weights(mat)
    IN  /\ ~DIsZero(w.sumGeoMeans.l)
        /\ ~DIsZero(w.sumGeoMeans.m)
        /\ ~DIsZero(w.sumGeoMeans.u)
        /\ ~DIsZero(w.sumDefuzz)

\* C16: the normalised weights of a matrix without a zero denominator sum
\* to 1 within 1e-9
C16_WeightsSumToOne ==
    Computed =>
        /\ NoZeroDenominator(critMatrix) =>
               Near(SumFrom(results.critNormWeights, DZero), DOne, Tolerance)
        /\ \A k \in 1..Len(altMatrices) :
               NoZeroDenominator(altMatrices[k]) =>
                   Near(SumFrom(results.altLocalWeights[k], DZero), DOne, Tolerance)

\* weights that are NaN, computed without a zero denominator
C16_Witness ==
    /\ Computed
    /\ NoZeroDenominator(critMatrix)
    /\ DIsNaN(SumFrom(results.critNormWeights, DZero))

\* what holds in every state: the same for the matrices none of whose cells
\* has a negative component
NoNegative(mat) ==
    \A r, c \in 1..Len(mat) :
        ~Less(mat[r][c].tri.l, Num(0)) /\ ~Less(mat[r][c].tri.m, Num(0))
            /\ ~Less(mat[r][c].tri.u, Num(0))

NonNegativeWeightsSumToOne ==
    Computed =>
        /\ NoZeroDenominator(critMatrix) /\ NoNegative(critMatrix) =>
               Near(SumFrom(results.critNormWeights, DZero), DOne, Tolerance)
        /\ \A k \in 1..Len(altMatrices) :
               NoZeroDenominator(altMatrices[k]) /\ NoNegative(altMatrices[k]) =>
                   Near(SumFrom(results.altLocalWeights[k], DZero), DOne, Tolerance)

\* the matrices of the state that have (1,1,1) in every cell, each with the
\* weights computed for it
IdentityWeights ==
    (IF critMatrix = Identity(Len(critMatrix))
     THEN {<<Len(critMatrix), results.critNormWeights>>} ELSE {})
    \cup {<<Len(altMatrices[k]), results.altLocalWeights[k]>> :
            k \in {j \in 1..Len(altMatrices) : altMatrices[j] = Identity(Len(altMatrices[j]))}}

ExactSizes == {1, 2, 3, 4}

Dec4(n) == DDiv(DOfInt(n), DOfInt(10000))

\* 1e-3
ScenarioTolerance == DDiv(DOne, DOfInt(1000))

Approx(x, n) == Near(x, Dec4(n), ScenarioTolerance)
ApproxTri(t, l, m, u) == Approx(t.l, l) /\ Approx(t.m, m) /\ Approx(t.u, u)

\* two criteria, intensity 3 entered at cell (0, 1) with the default terms
WorkedScenario ==
    /\ Computed
    /\ critMatrix = SetPairwise(Identity(2), 1, 2, Num(3), DEFAULT_TERMS)

\* C18: in the worked scenario the matrix and every stage of the
\* computation are within 1e-3 of the figures given
C18_WorkedScenario ==
    WorkedScenario =>
        /\ ApproxTri(DTri(critMatrix[1][1].tri), 10000, 10000, 10000)
        /\ ApproxTri(DTri(critMatrix[1][2].tri), 20000, 30000, 40000)
        /\ ApproxTri(DTri(critMatrix[2][1].tri), 2500, 3330, 5000)
        /\ ApproxTri(DTri(critMatrix[2][2].tri), 10000, 10000, 10000)
        /\ ApproxTri(results.critGeoMeans[1], 14142, 17321, 20000)
        /\ ApproxTri(results.critGeoMeans[2], 5000, 5774, 7071)
        /\ ApproxTri(results.sumCritGeoMeans, 19142, 23094, 27071)
        /\ ApproxTri(results.invSumCrit, 3694, 4331, 5224)
        /\ Approx(centerOfArea(results.critFuzzyWeights[1]), 7724)
        /\ Approx(centerOfArea(results.critFuzzyWeights[2]), 2680)
        /\ Approx(results.critNormWeights[1], 7425)
        /\ Approx(results.critNormWeights[2], 2575)

\* the scenario computed: the first criterion outweighs the second
C18_Witness ==
    /\ WorkedScenario
    /\ terms = DEFAULT_TERMS
    /\ DLess(results.critNormWeights[2], results.critNormWeights[1])
    /\ DLess(DOne, results.critGeoMeans[1].l)

-----------------------------------------------------------------------------
(* Properties of fuzzyInverse *)

\* the judgement 1/2 has been entered: cell (0, 1) holds the inverse of the
\* TFN of the term of value 2, cell (1, 0) the inverse of that inverse
InvertedTwice ==
    /\ lastOp = Op("handleCritMatrixChange", <<1, 2>>)
    /\ critMatrix[1][2].saatyValue = Rat(1, 2)
    /\ critMatrix[1][2].tri = fuzzyInverse(terms[2].tri)

Epsilon == DNum(1, <<1>>, 1 - SignificandBits)

-----------------------------------------------------------------------------
(* Properties of getTriForValue *)

\* the cell that the last change of a judgement entered, as a set of at
\* most one cell
EnteredCell ==
    IF lastOp.op = "handleCritMatrixChange"
    THEN {critMatrix[lastOp.args[1]][lastOp.args[2]]}
    ELSE IF lastOp.op = "handleAltMatrixChange"
    THEN {altMatrices[lastOp.args[1]][lastOp.args[2]][lastOp.args[3]]}
    ELSE {}

\* the TFNs of the terms of ts whose value is v
TrisOfValue(ts, v) == {ts[i].tri : i \in {k \in 1..Len(ts) : ts[k].value = v}}

\* tri is the TFN of a term of ts of value v, and (1, 1, 1) when there is
\* no such term
TriOfTermOrOne(tri, ts, v) ==
    IF TrisOfValue(ts, v) # {} THEN tri \in TrisOfValue(ts, v) ELSE tri = T_ONE

\* C21: for every intensity of at least 1, whole or not, and every term set,
\* the TFN resolved is that of the term whose value is the intensity rounded,
\* and (1, 1, 1) when no term has that value
C21_RoundedLookup ==
    \A cell \in EnteredCell :
        GreaterEq(cell.saatyValue, Num(1)) =>
            TriOfTermOrOne(cell.tri, terms, MathRound(cell.saatyValue))

\* for every intensity of at least 1 and every term set, the TFN resolved is
\* that of a term whose value is the intensity itself, unrounded, and
\* (1, 1, 1) when no term has that value
ExactLookup ==
    \A cell \in EnteredCell :
        GreaterEq(cell.saatyValue, Num(1)) =>
            TriOfTermOrOne(cell.tri, terms, cell.saatyValue)

\* 5/2 entered under the default terms: the TFN stored is (1, 1, 1), and
\* the term of value 3 has (2, 3, 4)
C21_Witness ==
    /\ lastOp = Op("handleCritMatrixChange", <<1, 2>>)
    /\ terms = DEFAULT_TERMS
    /\ critMatrix[1][2].saatyValue = Rat(5, 2)
    /\ critMatrix[1][2].tri = T_ONE
    /\ TrisOfValue(terms, MathRound(Rat(5, 2))) = {Tri(Num(2), Num(3), Num(4))}

\* tri is the inverse of the TFN of a term of ts of value v, and (1, 1, 1)
\* when there is no such term
InverseOfTermOrOne(tri, ts, v) ==
    IF TrisOfValue(ts, v) # {}
    THEN \E t \in TrisOfValue(ts, v) : tri = fuzzyInverse(t)
    ELSE tri = T_ONE

\* C22: for every intensity between 0 and 1 and every term set, the TFN
\* resolved is the inverse of the TFN of the term whose value is 1 / intensity
\* rounded, and (1, 1, 1) when no term has that value
C22_InverseLookup ==
    \A cell \in EnteredCell :
        (Less(Num(0), cell.saatyValue) /\ Less(cell.saatyValue, Num(1))) =>
            InverseOfTermOrOne(cell.tri, terms, MathRound(Div1(cell.saatyValue)))

\* 2/5 entered under the default terms: 1 / (2/5) is 5/2, which rounds to 3,
\* and the TFN stored is the inverse of (2, 3, 4)
C22_Witness ==
    /\ lastOp = Op("handleAltMatrixChange", <<1, 1, 2>>)
    /\ terms = DEFAULT_TERMS
    /\ altMatrices[1][1][2].saatyValue = Rat(2, 5)
    /\ altMatrices[1][1][2].tri = Tri(Rat(1, 4), Rat(1, 3), Rat(1, 2))

-----------------------------------------------------------------------------
(* Properties of fuzzyInverse *)

\* the cell that the last change of a judgement entered and the cell across
\* the diagonal from it, as a set of at most one pair
EnteredPair ==
    IF lastOp.op = "handleCritMatrixChange"
    THEN {<<critMatrix[lastOp.args[1]][lastOp.args[2]],
            critMatrix[lastOp.args[2]][lastOp.args[1]]>>}
    ELSE IF lastOp.op = "handleAltMatrixChange"
    THEN {<<altMatrices[lastOp.args[1]][lastOp.args[2]][lastOp.args[3]],
            altMatrices[lastOp.args[1]][lastOp.args[3]][lastOp.args[2]]>>}
    ELSE {}

Finite(x) == x[2] # 0

\* y is the reciprocal of x, that of 0 being 0: y * x = 1 for fractions, and
\* opposite exponents for the doubles given by their exponent
IsReciprocal(y, x) ==
    IF IsZero(x) THEN y = Num(0)
    ELSE IF Len(x) = 4 \/ Len(y) = 4
         THEN Finite(y) /\ Sign(y) = Sign(x) /\ Scale(y) = -Scale(x)
         ELSE y[1] * x[1] = y[2] * x[2]

\* inv is (1/u, 1/m, 1/l) of t, with no infinite component
InverseOf(inv, t) ==
    /\ IsReciprocal(inv.l, t.u) /\ Finite(inv.l)
    /\ IsReciprocal(inv.m, t.m) /\ Finite(inv.m)
    /\ IsReciprocal(inv.u, t.l) /\ Finite(inv.u)

\* C24: for every TFN, those with zero components included, the inverse
\* stored across the diagonal is (1/u, 1/m, 1/l) with the reciprocal of 0
\* being 0, and none of its components is infinite
C24_InverseTotal ==
    \A pair \in EnteredPair : InverseOf(pair[2].tri, pair[1].tri)

\* x is 0 or at least 2^-1022 in magnitude
NormalOrZero(x) == IsZero(x) \/ Scale(x) >= -1022

\* for every TFN whose components are 0 or normal doubles, the inverse is
\* (1/u, 1/m, 1/l) with the reciprocal of 0 being 0 and no component infinite
InverseTotalOnNormals ==
    \A pair \in EnteredPair :
        (\A f \in Fields : NormalOrZero(pair[1].tri[f])) =>
            InverseOf(pair[2].tri, pair[1].tri)

\* the term of value 2 was saved with the TFN (5e-324, 2, 3), validate finds
\* nothing wrong with the terms, and the intensity 2 was entered: the cell
\* across the diagonal has an infinite u
C24_Witness ==
    /\ lastOp = Op("handleCritMatrixChange", <<1, 2>>)
    /\ validate(terms) = NoErrors
    /\ critMatrix[1][2].tri = Tri(Pow2Num(1, MinExponent), Num(2), Num(3))
    /\ critMatrix[2][1].tri.l = Rat(1, 3)
    /\ critMatrix[2][1].tri.u = Infinity

\* the term of value 2 was saved with the TFN (0, 0, 0) and the intensity 2
\* was entered: the cell across the diagonal has (0, 0, 0)
InverseOfZeros ==
    /\ lastOp.op = "handleAltMatrixChange"
    /\ \E pair \in EnteredPair :
          /\ pair[1].tri = Tri(Num(0), Num(0), Num(0))
          /\ pair[2].tri = Tri(Num(0), Num(0), Num(0))

-----------------------------------------------------------------------------
(* Frame of the change of a judgement *)

\* mat2 has the size of mat and differs from it at most in the cells (r, c)
\* and (c, r)
SameButPair(mat2, mat, r, c) ==
    /\ Len(mat2) = Len(mat)
    /\ \A i \in 1..Len(mat) :
           /\ Len(mat2[i]) = Len(mat[i])
           /\ \A j \in 1..Len(mat[i]) :
                  <<i, j>> \notin {<<r, c>>, <<c, r>>} => mat2[i][j] = mat[i][j]

\* the names, the counts and the term set are as they were
NamesAndTermsKept ==
    /\ criteriaNames' = criteriaNames
    /\ altNames' = altNames
    /\ numCriteria' = numCriteria
    /\ numAlternatives' = numAlternatives
    /\ terms' = terms

\* C26: a change of the judgement at cell (i, j) of one matrix changes only
\* the cells (i, j) and (j, i) of that matrix: its other cells, every other
\* matrix, the names of the criteria and of the alternatives, their counts
\* and the term set are unchanged
C26_CellEditFrame ==
    [][ /\ lastOp'.op = "handleCritMatrixChange" =>
               /\ SameButPair(critMatrix', critMatrix, lastOp'.args[1], lastOp'.args[2])
               /\ altMatrices' = altMatrices
               /\ NamesAndTermsKept
        /\ lastOp'.op = "handleAltMatrixChange" =>
               /\ SameButPair(altMatrices'[lastOp'.args[1]], altMatrices[lastOp'.args[1]],
                              lastOp'.args[2], lastOp'.args[3])
               /\ Len(altMatrices') = Len(altMatrices)
               /\ \A k \in 1..Len(altMatrices) :
                      k # lastOp'.args[1] => altMatrices'[k] = altMatrices[k]
               /\ critMatrix' = critMatrix
               /\ NamesAndTermsKept
      ]_vars

\* a judgement entered at cell (1, 2) of the first alternative matrix of the
\* initial session: its cell (0, 2), the other alternative matrices and the
\* criteria matrix hold their built-in judgements
C26_Witness ==
    /\ lastOp = Op("handleAltMatrixChange", <<1, 2, 3>>)
    /\ altMatrices[1][2][3] # getInitialAltMatricesState[1][2][3]
    /\ altMatrices[1][3][2] # getInitialAltMatricesState[1][3][2]
    /\ altMatrices[1][1][3] = getInitialAltMatricesState[1][1][3]
    /\ altMatrices[1][1][3] # OneCell
    /\ Len(altMatrices) = 5
    /\ \A k \in 2..5 : altMatrices[k] = getInitialAltMatricesState[k]
    /\ altMatrices[1] # altMatrices[5]
    /\ critMatrix = getInitialCritMatrixState

-----------------------------------------------------------------------------
(* Properties of the floor of two items *)

\* the names and the matrices are as they were
NamesAndMatricesKept ==
    /\ criteriaNames' = criteriaNames
    /\ altNames' = altNames
    /\ critMatrix' = critMatrix
    /\ altMatrices' = altMatrices

\* a deletion asked for with two or fewer items changes nothing
DeleteAtFloorIsNoOp ==
    /\ (lastOp'.op = "handleDeleteCriterion" /\ numCriteria <= 2) => NamesAndMatricesKept
    /\ (lastOp'.op = "handleDeleteAlternative" /\ numAlternatives <= 2) => NamesAndMatricesKept

\* C28: the deletion of a criterion changes no name and no matrix when
\* there are 2 or fewer criteria, the deletion of an alternative none when
\* there are 2 or fewer alternatives; hence every reachable state has at
\* least 2 criteria and at least 2 alternatives
C28_DeleteFloor ==
    /\ [][DeleteAtFloorIsNoOp]_vars
    /\ [](numCriteria >= 2 /\ numAlternatives >= 2)

\* the first criterion's deletion asked for when the first two criteria are
\* all that is left: both are still there
C28_Witness ==
    /\ lastOp = Op("handleDeleteCriterion", <<1>>)
    /\ criteriaNames = SubSeq(INITIAL_CRITERIA_NAMES, 1, 2)
    /\ Len(critMatrix) = 2
    /\ Len(altMatrices) = 2

\* the same for the alternatives
DeleteAlternativeAtFloor ==
    /\ lastOp = Op("handleDeleteAlternative", <<1>>)
    /\ altNames = SubSeq(INITIAL_ALT_NAMES, 1, 2)
    /\ \A k \in 1..Len(altMatrices) : Len(altMatrices[k]) = 2

-----------------------------------------------------------------------------
(* Properties of the reset *)

\* the term set, the names and the matrices of the state after the step are
\* those the component is mounted with: 9 terms, 5 criteria, 3 alternatives
\* and the built-in judgements
InitialSessionAfter ==
    /\ terms' = DEFAULT_TERMS /\ Len(terms') = 9
    /\ criteriaNames' = INITIAL_CRITERIA_NAMES /\ numCriteria' = 5
    /\ altNames' = INITIAL_ALT_NAMES /\ numAlternatives' = 3
    /\ critMatrix' = getInitialMatrix(5, DEFAULT_TERMS, initialCritValues)
    /\ altMatrices' = [k \in 1..5 |->
                          getInitialMatrix(3, DEFAULT_TERMS,
                                           <<initialAlt1Values, initialAlt2Values,
                                             initialAlt3Values, initialAlt4Values,
                                             initialAlt5Values>>[k])]

\* the results of the session as mounted
InitialResults ==
    resultsMemo(getInitialCritMatrixState, getInitialAltMatricesState,
                INITIAL_CRITERIA_NAMES, INITIAL_ALT_NAMES)

\* C29: after a reset, whatever handlers ran before it, the term set, the
\* names of the criteria and of the alternatives, the criteria matrix and
\* the alternative matrices are those of the initial session, and the
\* results are the initial results
C29_ResetRestoresInitial ==
    [][ lastOp'.op = "handleReset" =>
            /\ InitialSessionAfter
            /\ results' = InitialResults
            /\ ~results'.isNull
      ]_vars

\* a reset that is the last of MaxSteps handler runs, the earlier of which
\* edited the term list in the editor and closed it: the session is the
\* initial one and the editor's list is still the edited one
C29_Witness ==
    /\ lastOp = Op("handleReset", <<>>)
    /\ steps = MaxSteps
    /\ localTerms # DEFAULT_TERMS
    /\ terms = DEFAULT_TERMS
    /\ critMatrix = getInitialCritMatrixState
    /\ results = InitialResults

\* a reset of a session whose term set had been saved with another value
\* for its second term: the state before the reset
SavedBeforeReset ==
    /\ lastOp = Op("handleSave", <<1>>)
    /\ steps = MaxSteps - 1
    /\ terms # DEFAULT_TERMS

-----------------------------------------------------------------------------
(* Properties of the sum of the scores *)

\* the sums of the weight vectors: that of the criteria first, then those of
\* the alternatives under each criterion
WeightSums ==
    <<SumFrom(results.critNormWeights, DZero)>>
    \o [k \in 1..Len(results.altLocalWeights) |->
           SumFrom(results.altLocalWeights[k], DZero)]

ScoreSum == SumFrom(results.globalScores, DZero)

\* with the sums taken as the doubles they are: whenever every weight
\* vector sums to the double 1, the scores sum to the double 1
ScoresSumToOneExact ==
    (Computed /\ \A k \in 1..Len(WeightSums) : WeightSums[k] = DOne) =>
        ScoreSum = DOne

-----------------------------------------------------------------------------
(* Properties of the options of the Select *)

\* the cell entered holds the TFN of the term at index i when its intensity
\* is the value of that term, and the inverse of that TFN when the value is
\* above 1 and the intensity is 1 / value
ResolvesToTerm(cell, ts, i) ==
    /\ cell.saatyValue = ts[i].value => cell.tri = ts[i].tri
    /\ (Less(Num(1), ts[i].value) /\ cell.saatyValue = Div1(ts[i].value)) =>
           cell.tri = fuzzyInverse(ts[i].tri)

\* C27: under every term set the editor accepted, an intensity that the
\* Select offers resolves to the TFN of the term whose value it is, or to
\* the inverse of the TFN of the term whose value it is the reciprocal of,
\* and so to (1, 1, 1) only when that is the term's TFN
C27_OfferedResolvesToTerm ==
    \A cell \in EnteredCell :
        \A i \in 1..Len(terms) : ResolvesToTerm(cell, terms, i)

\* the same for the terms whose value is at least 1
OfferedResolvesToTermFromOne ==
    \A cell \in EnteredCell :
        \A i \in 1..Len(terms) :
            GreaterEq(terms[i].value, Num(1)) => ResolvesToTerm(cell, terms, i)

\* the term of TFN (1, 2, 3) was saved with the value 0, validate finds
\* nothing wrong with the terms, and the option 0 was selected: the cell
\* holds (1, 1, 1)
C27_Witness ==
    /\ lastOp = Op("handleCritMatrixChange", <<1, 2>>)
    /\ validate(terms) = NoErrors
    /\ terms[2].value = Num(0)
    /\ terms[2].tri = Tri(Num(1), Num(2), Num(3))
    /\ critMatrix[1][2].saatyValue = Num(0)
    /\ critMatrix[1][2].tri = T_ONE

\* the option 1/12 selected under the terms with a term of value 12: the
\* cell holds the inverse of that term's TFN
ReciprocalOfTwelve ==
    /\ lastOp.op = "handleAltMatrixChange"
    /\ terms[2].value = Num(12)
    /\ \E cell \in EnteredCell :
          /\ cell.saatyValue = Rat(1, 12)
          /\ cell.tri = Tri(Rat(1, 3), Rat(1, 2), Num(1))

-----------------------------------------------------------------------------
(* Properties of the normalisation *)

\* normalized is what the guard makes of the crisp values of mat: 0 for every
\* row when their sum is 0, and the quotient by the sum otherwise
GuardedQuotients(normalized, mat) ==
    LET w == Weights(mat)
    IN  /\ Len(normalized) = Len(mat)
        /\ \A i \in 1..Len(mat) :
               normalized[i] = IF DIsZero(w.sumDefuzz) THEN DZero
                               ELSE DDiv(w.defuzzified[i], w.sumDefuzz)

\* C25: when the crisp values of a matrix sum to 0 every normalised weight
\* of that matrix is 0 and the results are still computed; otherwise each
\* normalised weight is the crisp value divided by the sum; this holds for
\* the criteria matrix and for each alternative matrix on its own
C25_NormalizationGuard ==
    lastOp = Op("results", <<>>) =>
        /\ ~results.isNull
        /\ GuardedQuotients(results.critNormWeights, critMatrix)
        /\ \A k \in 1..Len(altMatrices) :
               GuardedQuotients(results.altLocalWeights[k], altMatrices[k])

\* two criteria and three alternatives, the term of value 2 saved as
\* (0, 0, 0) and selected in cell (0, 1) of the criteria matrix: its crisp
\* values sum to 0 and its weights are 0, while those of the alternatives,
\* whose crisp values do not sum to 0, are not
C25_Witness ==
    /\ Computed
    /\ numCriteria = 2
    /\ numAlternatives = 3
    /\ DIsZero(Weights(critMatrix).sumDefuzz)
    /\ results.critNormWeights = <<DZero, DZero>>
    /\ ~DIsZero(Weights(altMatrices[1]).sumDefuzz)
    /\ ~DIsZero(results.altLocalWeights[1][1])
    /\ results.globalScores = <<DZero, DZero, DZero>>

\* the other way round: the crisp values of the first alternative matrix
\* sum to 0 and those of the criteria matrix do not
ZeroSumOfAlternatives ==
    /\ Computed
    /\ numCriteria = 2
    /\ numAlternatives = 2
    /\ ~DIsZero(Weights(critMatrix).sumDefuzz)
    /\ DIsZero(Weights(altMatrices[1]).sumDefuzz)
    /\ results.altLocalWeights[1] = <<DZero, DZero>>
    /\ ~DIsZero(results.altLocalWeights[2][1])

-----------------------------------------------------------------------------
(* Properties of validate *)

\* the defects of the term at index i of ts
Defective(ts, i) ==
    \/ Trim(ts[i].shortName) = <<>>
    \/ \E j \in 1..(i - 1) : Trim(ts[j].shortName) = Trim(ts[i].shortName)
    \/ \E j \in 1..(i - 1) : ts[j].value = ts[i].value
    \/ Less(ts[i].tri.m, ts[i].tri.l)
    \/ Less(ts[i].tri.u, ts[i].tri.m)

\* errors is what validate returned for the list being edited
Validated ==
    \/ lastOp.op \in {"openEditor", "handleChange", "addTerm", "deleteTerm"}
    \/ lastOp = Op("handleSave", <<0>>)

\* C23: validate attaches an error to a term exactly when its shortName is
\* empty after trimming, or an earlier term has the same trimmed shortName,
\* or an earlier term has the same value, or its l > m, or its m > u; what
\* it returns is empty exactly when no term has such a defect, whatever the
\* number of terms
C23_ErrorsExactlyOnDefects ==
    Validated =>
        /\ \A i \in 1..Len(localTerms) :
              localTerms[i].id \in DOMAIN errors <=> Defective(localTerms, i)
        /\ HasKeys(errors) <=> \E i \in 1..Len(localTerms) : Defective(localTerms, i)

\* two terms have the same value: the later one has an error and the
\* earlier one has none
C23_Witness ==
    /\ lastOp.op = "handleChange"
    /\ \E i, j \in 1..Len(localTerms) :
          /\ i < j
          /\ localTerms[i].value = localTerms[j].value
          /\ localTerms[j].id \in DOMAIN errors
          /\ localTerms[i].id \notin DOMAIN errors

=============================================================================
